---- MODULE Spec2Model ----
(***************************************************************************)
(* State-machine model of the DPoS arbitrator state engine                 *)
(* (package dpos/state: arbitrators, State, history, degradation).         *)
(*                                                                         *)
(* Keys are small integers: an owner key o, its node key NodeKeyOf(o), a   *)
(* CRC key c.  Byte-wise comparison of keys is integer comparison.         *)
(* Fixed64 amounts are integers (sela).                                    *)
(***************************************************************************)
EXTENDS Integers, Sequences, FiniteSets, TLC

(***************************************************************************)
(* Bounds of the model                                                     *)
(***************************************************************************)
\* blocks are processed up to this height
MaxHeight == 10
\* transactions and rollbacks the host issues in all
MaxEvents == 3
\* a producer's vote tally never exceeds this in the inputs that are fed
MaxVotes == 2

(***************************************************************************)
(* Configuration (chain parameters)                                        *)
(***************************************************************************)
CRCOnlyDPOSHeight == 3
PublicDPOSHeight == 8
PreConnectOffset == 1
GeneralArbiters == 1
CandidateArbiters == 1
RewardPerBlock == 10
\* fee carried by every transaction of the block stream
TxFee == 2
\* confirmations (counting the registering block) before Pending -> Active
ActivateDelayBlocks == 6
\* confirmed blocks in a row an arbitrator may miss
MaxInactiveRounds == 2
\* what a producer owes for having become inactive
InactivePenalty == 5
\* number of per-height change frames the history retains
maxHistoryCapacity == 2

\* owner public keys of the producers that may register
Owners == {1, 2}
\* config.CRCArbiters, in configuration order (not sorted)
CRCArbiters == <<12, 11>>
\* config.OriginArbiters
OriginArbiters == <<32, 31>>
\* config.CRCAddress
CRCAddress == 100

NodeKeyOf(o) == 20 + o
\* contract.PublicKeyToStandardProgramHash: injective on keys
PublicKeyToStandardProgramHash(pk) == 100 + pk

(***************************************************************************)
(* Sequences, maps                                                         *)
(***************************************************************************)
Range(q) == {q[i] : i \in DOMAIN q}

RECURSIVE SumSeq(_)
SumSeq(q) == IF q = <<>> THEN 0 ELSE Head(q) + SumSeq(Tail(q))

RECURSIVE SetToSortedSeq(_)
\* ascending order of a finite set of integers
SetToSortedSeq(S) ==
    IF S = {} THEN <<>>
    ELSE LET m == CHOOSE x \in S : \A y \in S : x <= y
         IN <<m>> \o SetToSortedSeq(S \ {m})

\* sort.Slice with bytes.Compare(..) < 0 on a list of keys; with equal keys
\* adjacent the result is the same whatever the algorithm does
RECURSIVE InsertSorted(_, _)
InsertSorted(x, q) ==
    IF q = <<>> THEN <<x>>
    ELSE IF x <= Head(q) THEN <<x>> \o q
    ELSE <<Head(q)>> \o InsertSorted(x, Tail(q))

RECURSIVE SortKeys(_)
SortKeys(q) == IF q = <<>> THEN <<>> ELSE InsertSorted(Head(q), SortKeys(Tail(q)))

\* every order in which the elements of S can be listed
Orderings(S) ==
    {q \in [1..Cardinality(S) -> S] : \A i, j \in 1..Cardinality(S) : i # j => q[i] # q[j]}

\* a Go map read: the zero value when the key is absent
MapGet(m, k) == IF k \in DOMAIN m THEN m[k] ELSE 0
MapPut(m, k, v) == [x \in DOMAIN m \cup {k} |-> IF x = k THEN v ELSE m[x]]
\* sum of the values of a map
RECURSIVE MapSumOver(_, _)
MapSumOver(m, D) ==
    IF D = {} THEN 0
    ELSE LET k == CHOOSE x \in D : TRUE IN m[k] + MapSumOver(m, D \ {k})
MapSum(m) == MapSumOver(m, DOMAIN m)
\* a nil map (reads as empty)
NilMap == <<>>

\* floor and ceiling of n/d for n >= 0, d > 0
FloorDiv(n, d) == n \div d
CeilDiv(n, d) == (n + d - 1) \div d

(***************************************************************************)
(* Producer registry and its change history (type State, type history).    *)
(* A producer record is keyed by its owner public key.                     *)
(***************************************************************************)
NoProducer == [status |-> "None", node |-> 0, nick |-> 0, votes |-> 0, registerHeight |-> 0,
               penalty |-> 0, inactiveCount |-> 0, activateRequestHeight |-> 0]

\* history.append: the mutation is applied and its undo is pushed on the
\* frame under construction; r = [producers, nicknames, undos], an
\* undo holds what the mutation overwrote
historyAppend(r, o, new) ==
    [r EXCEPT !.producers = [r.producers EXCEPT ![o] = new],
              !.undos = Append(r.undos, [owner |-> o, old |-> r.producers[o],
                                         nicknames |-> r.nicknames])]

\* RegisterProducer: a new Pending record, its nickname is taken
registerProducer(r, tx, height) ==
    [historyAppend(r, tx.owner,
        [NoProducer EXCEPT !.status = "Pending", !.node = NodeKeyOf(tx.owner),
                           !.nick = tx.nick, !.registerHeight = height])
     EXCEPT !.nicknames = r.nicknames \cup {tx.nick}]

\* UpdateProducer: nickname and node key of the owner's record are replaced
updateProducer(r, tx) ==
    IF r.producers[tx.owner].status \in {"Pending", "Active", "Inactive"}
    THEN [historyAppend(r, tx.owner,
              [r.producers[tx.owner] EXCEPT !.nick = tx.nick, !.node = tx.node])
          EXCEPT !.nicknames = (r.nicknames \ {r.producers[tx.owner].nick}) \cup {tx.nick}]
    ELSE r

\* a cancel that leaves the nickname taken
cancelProducerKeepNickname(r, tx) ==
    IF r.producers[tx.owner].status \in {"Pending", "Active"}
    THEN historyAppend(r, tx.owner, [r.producers[tx.owner] EXCEPT !.status = "Canceled"])
    ELSE r

\* CancelProducer: the record becomes Canceled, its nickname is released
cancelProducer(r, tx) ==
    IF r.producers[tx.owner].status \in {"Pending", "Active"}
    THEN [historyAppend(r, tx.owner, [r.producers[tx.owner] EXCEPT !.status = "Canceled"])
          EXCEPT !.nicknames = r.nicknames \ {r.producers[tx.owner].nick}]
    ELSE r

\* illegal evidence against the producer of key owner: an Active record
\* becomes Illegal, its nickname is released
processIllegalEvidence(r, owner) ==
    IF owner \in DOMAIN r.producers /\ r.producers[owner].status = "Active"
    THEN [historyAppend(r, owner, [r.producers[owner] EXCEPT !.status = "Illegal"])
          EXCEPT !.nicknames = r.nicknames \ {r.producers[owner].nick}]
    ELSE r

\* a vote output of tx.value referring to the producers tx.owners
RECURSIVE processVotes(_, _, _)
processVotes(r, owners, value) ==
    IF owners = {} THEN r
    ELSE LET o == CHOOSE x \in owners : TRUE
             r1 == IF r.producers[o].status \in {"Pending", "Active", "Inactive"}
                   THEN historyAppend(r, o,
                            [r.producers[o] EXCEPT !.votes = @ + value])
                   ELSE r
         IN processVotes(r1, owners \ {o}, value)

\* the spending of a vote output that takes the value from retired producers too
RECURSIVE processVoteCancelAnyStatus(_, _, _)
processVoteCancelAnyStatus(r, owners, value) ==
    IF owners = {} THEN r
    ELSE LET o == CHOOSE x \in owners : TRUE
         IN processVoteCancelAnyStatus(
                historyAppend(r, o, [r.producers[o] EXCEPT !.votes = @ - value]),
                owners \ {o}, value)

\* a spent vote output of that value referring to the producers owners
RECURSIVE processVoteCancel(_, _, _)
processVoteCancel(r, owners, value) ==
    IF owners = {} THEN r
    ELSE LET o == CHOOSE x \in owners : TRUE
             r1 == IF r.producers[o].status \in {"Pending", "Active", "Inactive"}
                   THEN historyAppend(r, o,
                            [r.producers[o] EXCEPT !.votes = @ - value])
                   ELSE r
         IN processVoteCancel(r1, owners \ {o}, value)

\* ActivateProducer: an Inactive producer asks to be active again
activateProducer(r, tx, height) ==
    IF r.producers[tx.owner].status = "Inactive"
    THEN historyAppend(r, tx.owner,
             [r.producers[tx.owner] EXCEPT !.activateRequestHeight = height])
    ELSE r

processTransaction(r, tx, height) ==
    CASE tx.type = "register" -> registerProducer(r, tx, height)
      [] tx.type = "cancel" -> cancelProducer(r, tx)
      [] tx.type = "vote" -> processVotes(r, tx.owners, tx.value)
      [] tx.type = "cancelVote" -> processVoteCancel(r, tx.owners, tx.value)
      [] tx.type = "update" -> updateProducer(r, tx)
      [] tx.type = "activate" -> activateProducer(r, tx, height)
      [] tx.type \in {"illegal", "illegalProposal"} -> processIllegalEvidence(r, tx.owner)
      [] OTHER -> r

\* the activation with the registering block left out of the count
RECURSIVE activatePendingLate(_, _, _)
activatePendingLate(r, owners, height) ==
    IF owners = {} THEN r
    ELSE LET o == CHOOSE x \in owners : TRUE
             p == r.producers[o]
             r1 == IF p.status = "Pending"
                      /\ height - p.registerHeight >= ActivateDelayBlocks
                   THEN historyAppend(r, o, [p EXCEPT !.status = "Active"])
                   ELSE r
         IN activatePendingLate(r1, owners \ {o}, height)

\* pending producers that have got their confirmations become Active
RECURSIVE activatePending(_, _, _)
activatePending(r, owners, height) ==
    IF owners = {} THEN r
    ELSE LET o == CHOOSE x \in owners : TRUE
             p == r.producers[o]
             r1 == IF p.status = "Pending"
                      /\ height - p.registerHeight + 1 >= ActivateDelayBlocks
                   THEN historyAppend(r, o, [p EXCEPT !.status = "Active"])
                   ELSE r
         IN activatePending(r1, owners \ {o}, height)

RECURSIVE applyTxs(_, _, _)
applyTxs(r, txs, height) ==
    IF txs = <<>> THEN r
    ELSE applyTxs(processTransaction(r, Head(txs), height), Tail(txs), height)

\* the reactivation with the requesting block left out of the count
RECURSIVE activateInactiveLate(_, _, _)
activateInactiveLate(r, owners, height) ==
    IF owners = {} THEN r
    ELSE LET o == CHOOSE x \in owners : TRUE
             p == r.producers[o]
             r1 == IF p.status = "Inactive" /\ p.activateRequestHeight # 0
                      /\ height > p.activateRequestHeight
                      /\ height - p.activateRequestHeight >= ActivateDelayBlocks
                   THEN historyAppend(r, o, [p EXCEPT !.status = "Active",
                                                      !.activateRequestHeight = 0])
                   ELSE r
         IN activateInactiveLate(r1, owners \ {o}, height)

\* inactive producers whose request has got its confirmations become Active
RECURSIVE activateInactive(_, _, _)
activateInactive(r, owners, height) ==
    IF owners = {} THEN r
    ELSE LET o == CHOOSE x \in owners : TRUE
             p == r.producers[o]
             r1 == IF p.status = "Inactive" /\ p.activateRequestHeight # 0
                      /\ height > p.activateRequestHeight
                      /\ height - p.activateRequestHeight + 1 >= ActivateDelayBlocks
                   THEN historyAppend(r, o, [p EXCEPT !.status = "Active",
                                                      !.activateRequestHeight = 0])
                   ELSE r
         IN activateInactive(r1, owners \ {o}, height)

processTransactions(r, txs, height) ==
    activateInactive(activatePending(applyTxs(r, txs, height), DOMAIN r.producers, height),
                     DOMAIN r.producers, height)

\* no confirm comes with the block
NilConfirm == [sponsor |-> 0, votes |-> {}]
confirmOf(block) == IF "confirm" \in DOMAIN block THEN block.confirm ELSE NilConfirm

\* one arbitrator's count after a confirmed block: zero when it sponsored or
\* signed, one more when it did neither, Inactive and penalised when the
\* count exceeds MaxInactiveRounds
countInactivity(r, o, signed) ==
    IF signed
    THEN historyAppend(r, o, [r.producers[o] EXCEPT !.inactiveCount = 0])
    ELSE IF r.producers[o].inactiveCount + 1 > MaxInactiveRounds
    THEN historyAppend(r, o, [r.producers[o] EXCEPT !.status = "Inactive",
                                                    !.inactiveCount = 0,
                                                    !.penalty = @ + InactivePenalty])
    ELSE historyAppend(r, o, [r.producers[o] EXCEPT !.inactiveCount = @ + 1])

RECURSIVE countArbiters(_, _, _, _)
countArbiters(r, owners, arbiters, confirm) ==
    IF owners = {} THEN r
    ELSE LET o == CHOOSE x \in owners : TRUE
             r1 == IF r.producers[o].status = "Active" /\ r.producers[o].node \in arbiters
                   THEN countInactivity(r, o,
                            r.producers[o].node \in confirm.votes \cup {confirm.sponsor})
                   ELSE r
         IN countArbiters(r1, owners \ {o}, arbiters, confirm)

\* the count that takes the block of PublicDPOSHeight in
countArbitratorsInactivityFromPublicDPOSHeight(r, height, confirm, arbiters) ==
    IF confirm = NilConfirm \/ height < PublicDPOSHeight THEN r
    ELSE countArbiters(r, DOMAIN r.producers, arbiters, confirm)

\* State.countArbitratorsInactivity: the arbitrators of the confirmed block
\* are counted once producers take part in the committee
countArbitratorsInactivity(r, height, confirm, arbiters) ==
    IF confirm = NilConfirm \/ height <= PublicDPOSHeight THEN r
    ELSE countArbiters(r, DOMAIN r.producers, arbiters, confirm)

\* the undos of one frame, applied in insertion order
RECURSIVE undoFrameForward(_, _)
undoFrameForward(producers, undos) ==
    IF undos = <<>> THEN producers
    ELSE LET u == Head(undos)
         IN undoFrameForward([producers EXCEPT ![u.owner] = u.old], Tail(undos))

\* the undos of one frame, applied in reverse insertion order
RECURSIVE undoFrame(_, _)
undoFrame(producers, undos) ==
    IF undos = <<>> THEN producers
    ELSE LET u == undos[Len(undos)]
         IN undoFrame([producers EXCEPT ![u.owner] = u.old],
                      SubSeq(undos, 1, Len(undos) - 1))

\* the nickname index as it was before the undos of one frame
undoNicknames(nicknames, undos) ==
    IF undos = <<>> THEN nicknames ELSE undos[1].nicknames

\* the mutations made since the last block, undone
dropProvisional(s) ==
    [s EXCEPT !.producers = undoFrame(s.producers, s.history.temp),
              !.nicknames = undoNicknames(s.nicknames, s.history.temp),
              !.history.temp = <<>>]

\* history.commit: the frame is closed; the oldest frame is dropped when the
\* capacity is exceeded
historyCommit(h, height, undos) ==
    LET kept == IF Len(h.changes) >= maxHistoryCapacity THEN Tail(h.changes)
                ELSE h.changes
    IN [height |-> height,
        changes |-> Append(kept, [height |-> height, undos |-> undos]),
        temp |-> <<>>]

\* the transactions of the block are applied and committed as one frame
commitBlock(s, block) ==
    LET r == countArbitratorsInactivity(
                 processTransactions([producers |-> s.producers, nicknames |-> s.nicknames,
                                      undos |-> <<>>],
                                     block.txs, block.height),
                 block.height, confirmOf(block), Range(s.currentArbitrators))
    IN [s EXCEPT !.producers = r.producers,
                 !.nicknames = r.nicknames,
                 !.history = historyCommit(s.history, block.height, r.undos)]

\* State.ProcessBlock that keeps what a special payload did between blocks
StateProcessBlockKeepProvisional(s, block) == commitBlock(s, block)

\* State.ProcessBlock: what a special payload did since the last block is
\* undone, then the block is applied
StateProcessBlock(s, block) == commitBlock(dropProvisional(s), block)

\* State.ProcessSpecialTxPayload with illegal evidence against the producer
\* of key owner: applied at once at the height of the tip, and kept apart
\* from the frames of the blocks
StateProcessSpecialTxPayload(s, owner) ==
    LET r == processIllegalEvidence([producers |-> s.producers, nicknames |-> s.nicknames,
                                     undos |-> s.history.temp], owner)
    IN [s EXCEPT !.producers = r.producers,
                 !.nicknames = r.nicknames,
                 !.history.temp = r.undos]

\* frames above height are undone, last frame first
RECURSIVE undoFrames(_, _, _)
undoFrames(producers, changes, height) ==
    IF changes = <<>> \/ changes[Len(changes)].height <= height
    THEN [producers |-> producers, changes |-> changes]
    ELSE undoFrames(undoFrame(producers, changes[Len(changes)].undos),
                    SubSeq(changes, 1, Len(changes) - 1), height)

\* the nickname index with the frames above height undone
RECURSIVE undoFramesNicknames(_, _, _)
undoFramesNicknames(nicknames, changes, height) ==
    IF changes = <<>> \/ changes[Len(changes)].height <= height THEN nicknames
    ELSE undoFramesNicknames(undoNicknames(nicknames, changes[Len(changes)].undos),
                             SubSeq(changes, 1, Len(changes) - 1), height)

\* the limit one height too high
limitHeightOffByOne(h) == h.height - Len(h.changes) + 1

\* lowest height the history can still seek to
limitHeight(h) == h.height - Len(h.changes)

\* the frames above height are undone: [s, err, limit]
rollbackFrames(s, height, limit) ==
    LET u == undoFrames(s.producers, s.history.changes, height)
    IN [s |-> [s EXCEPT !.producers = u.producers,
                        !.nicknames = undoFramesNicknames(s.nicknames,
                                          s.history.changes, height),
                        !.history = [height |-> height, changes |-> u.changes,
                                     temp |-> <<>>]],
        err |-> "nil", limit |-> limit]

\* history.rollbackTo / State.RollbackTo: [s, err, limit]
StateRollbackTo(s, height) ==
    IF height < limitHeight(s.history)
    THEN [s |-> s, err |-> "overflow", limit |-> limitHeight(s.history)]
    ELSE rollbackFrames(dropProvisional(s), height, limitHeight(s.history))

\* GetHistory that seeks the live state instead of a clone
StateGetHistoryInPlace(s, height) ==
    IF height < limitHeight(s.history)
    THEN [s |-> s, view |-> [x \in DOMAIN s.producers |-> NoProducer], err |-> "overflow",
          limit |-> limitHeight(s.history)]
    ELSE [s |-> StateRollbackTo(s, height).s,
          view |-> undoFrames(s.producers, s.history.changes, height).producers,
          err |-> "nil", limit |-> limitHeight(s.history)]

\* State.GetHistory: the undos are replayed into a clone, the state is not
\* touched: [s, view, err, limit]
StateGetHistory(s, height) ==
    IF height < limitHeight(s.history)
    THEN [s |-> s, view |-> [x \in DOMAIN s.producers |-> NoProducer], err |-> "overflow",
          limit |-> limitHeight(s.history)]
    ELSE [s |-> s,
          view |-> undoFrames(undoFrame(s.producers, s.history.temp),
                              s.history.changes, height).producers,
          err |-> "nil", limit |-> limitHeight(s.history)]

\* registry queries
GetPendingProducers(p) == {o \in DOMAIN p : p[o].status = "Pending"}
GetActiveProducers(p) == {o \in DOMAIN p : p[o].status = "Active"}
GetCanceledProducers(p) == {o \in DOMAIN p : p[o].status = "Canceled"}
GetProducers(p) == {o \in DOMAIN p : p[o].status \in {"Pending", "Active"}}
\* State.GetProducer(nodePublicKey): the live record with that node key
GetProducer(p, pk) == {o \in DOMAIN p : p[o].status # "None" /\ p[o].node = pk}
\* State.GetVotedProducers: active producers that have votes
GetVotedProducers(p) == {o \in DOMAIN p : p[o].status = "Active" /\ p[o].votes > 0}

(***************************************************************************)
(* Degradation controller (type degradation), fields degState and          *)
(* understaffedSince of the engine record.                                 *)
(***************************************************************************)
TrySetUnderstaffed(a, height) ==
    IF a.degState = "Normal"
    THEN [a EXCEPT !.degState = "Understaffed", !.understaffedSince = height]
    ELSE a

IsAbleToRecoverFromUnderstaffedState(a) ==
    Cardinality(GetVotedProducers(a.producers)) >= GeneralArbiters

TryLeaveUnderStaffed(a) ==
    IF a.degState = "Understaffed" /\ IsAbleToRecoverFromUnderstaffedState(a)
    THEN [a EXCEPT !.degState = "Normal", !.understaffedSince = 0]
    ELSE a

IsUnderstaffedMode(a) == a.degState = "Understaffed"
IsInactiveMode(a) == a.degState = "Inactive"

\* degradation.RollbackTo
degradationRollbackTo(a, height) ==
    IF a.degState = "Understaffed" /\ height < a.understaffedSince
    THEN [a EXCEPT !.degState = "Normal", !.understaffedSince = 0]
    ELSE a

(***************************************************************************)
(* Reward ledger (arbitrators.accumulateReward .. getBlockDPOSReward)      *)
(***************************************************************************)
RECURSIVE TotalFee(_)
TotalFee(txs) == IF txs = <<>> THEN 0 ELSE Head(txs).fee + TotalFee(Tail(txs))

\* ceil((fees + RewardPerBlock) * 0.35)
getBlockDPOSReward(block) == CeilDiv((TotalFee(block.txs) + RewardPerBlock) * 35, 100)

accumulateRewardKeepsLedger(a, block) ==
    IF block.height <= PublicDPOSHeight THEN a
    ELSE [a EXCEPT !.accumulativeReward = @ + getBlockDPOSReward(block)]
accumulateReward(a, block) ==
    IF block.height <= PublicDPOSHeight THEN a
    ELSE [a EXCEPT !.accumulativeReward = @ + getBlockDPOSReward(block),
                   !.arbitersRoundReward = NilMap,
                   !.finalRoundChange = 0]

IsCRCArbitrator(pk) == pk \in Range(CRCArbiters)
crcArbitratorsProgramHashes == {PublicKeyToStandardProgramHash(pk) : pk \in Range(CRCArbiters)}

(***************************************************************************)
(* float64 arithmetic of the payout.  A positive float64 is its 53         *)
(* significant bits, the first of them 1, with the number of them that     *)
(* stand before the binary point; zero has no bits.  Quotient and product  *)
(* are the exact results rounded to nearest, ties to even.                 *)
(***************************************************************************)
MantissaBits == 53
Float64Zero == [sig |-> <<>>, point |-> 0]

\* the bits of a natural number, the highest first
RECURSIVE BinaryOf(_)
BinaryOf(n) == IF n = 0 THEN <<>> ELSE Append(BinaryOf(n \div 2), n % 2)

\* 2^k modulo d, for k up to twice the width of the integers
twoToThe(k, d) == ((2^(k \div 2) % d) * (2^(k - k \div 2) % d)) % d

\* the remainder of the long division of rem / d after k further bits
remainderAfter(rem, d, k) == (rem * twoToThe(k, d)) % d

\* count further bits of rem / d after the bits acc: [bits, rem]
quotientBits(rem, d, count, acc) ==
    [bits |-> acc \o [k \in 1..count |-> (2 * remainderAfter(rem, d, k - 1)) \div d],
     rem |-> remainderAfter(rem, d, count)]

\* the zero bits rem / d < 1 begins with: [rem, zeros]
RECURSIVE leadingZeros(_, _, _)
leadingZeros(rem, d, k) ==
    IF 2 * rem >= d THEN [rem |-> rem, zeros |-> k] ELSE leadingZeros(2 * rem, d, k + 1)

\* the position of the last zero bit, 0 when there is none
lastZero(bits) ==
    IF \A i \in 1..Len(bits) : bits[i] = 1 THEN 0
    ELSE CHOOSE i \in 1..Len(bits) :
             bits[i] = 0 /\ \A j \in (i + 1)..Len(bits) : bits[j] = 1

\* bits + 1 in the last place; z is the position of the last zero bit
addOne(bits, z) ==
    IF z = 0 THEN <<1>> \o [i \in 1..Len(bits) |-> 0]
    ELSE [i \in 1..Len(bits) |-> IF i < z THEN bits[i] ELSE IF i = z THEN 1 ELSE 0]

\* the significand after the carry of a rounding up
carried(inc, point) ==
    IF Len(inc) > MantissaBits
    THEN [sig |-> SubSeq(inc, 1, MantissaBits), point |-> point + 1]
    ELSE [sig |-> inc, point |-> point]

\* bits (at least MantissaBits + 1 of them, the first 1) rounded to a float64;
\* sticky tells that the exact value has further non-zero bits
roundToNearestEven(bits, sticky, point) ==
    IF /\ bits[MantissaBits + 1] = 1
       /\ \/ sticky
          \/ bits[MantissaBits] = 1
          \/ \E i \in (MantissaBits + 2)..Len(bits) : bits[i] = 1
    THEN carried(addOne(SubSeq(bits, 1, MantissaBits),
                        lastZero(SubSeq(bits, 1, MantissaBits))), point)
    ELSE [sig |-> SubSeq(bits, 1, MantissaBits), point |-> point]

\* q = [bits, rem] is the quotient as far as it was developed
roundedQuotient(q, point) == roundToNearestEven(q.bits, q.rem # 0, point)

\* n / d below 1; z is what leadingZeros found
fractionQuotient(d, z) ==
    roundedQuotient(quotientBits(z.rem, d, MantissaBits + 1, <<>>), -z.zeros)

\* n / d from 1 on; whole is the integer part in bits
wholeQuotient(n, d, whole) ==
    roundedQuotient(quotientBits(n % d, d, MantissaBits + 1 - Len(whole), whole),
                    Len(whole))

\* float64(n) / float64(d) for integers n >= 0 and d > 0, and as well
\* (float64(n) * 0.25) / float64(d / 4) when 4 divides d
Float64Quotient(n, d) ==
    IF n = 0 THEN Float64Zero
    ELSE IF n < d THEN fractionQuotient(d, leadingZeros(n, d, 0))
    ELSE wholeQuotient(n, d, BinaryOf(n \div d))

\* the number the bits 1..i stand for
RECURSIVE bitsValue(_, _)
bitsValue(bits, i) == IF i = 0 THEN 0 ELSE 2 * bitsValue(bits, i - 1) + bits[i]

\* the last w bits of n, the highest first
bitsOf(n, w) == [k \in 1..w |-> (n \div 2^(w - k)) % 2]

\* the significand is multiplied in three parts of at most partBits + 2 bits
partBits == MantissaBits \div 3
lowPart(sig, v) ==
    v * bitsValue(SubSeq(sig, MantissaBits - partBits + 1, MantissaBits), partBits)
midPart(sig, v) ==
    v * bitsValue(SubSeq(sig, MantissaBits - 2 * partBits + 1, MantissaBits - partBits),
                  partBits)
      + lowPart(sig, v) \div 2^partBits
highPart(sig, v) ==
    v * bitsValue(SubSeq(sig, 1, MantissaBits - 2 * partBits),
                  MantissaBits - 2 * partBits)
      + midPart(sig, v) \div 2^partBits

\* the bits of sig * v
timesBits(sig, v) ==
    BinaryOf(highPart(sig, v)) \o bitsOf(midPart(sig, v) % 2^partBits, partBits)
                               \o bitsOf(lowPart(sig, v) % 2^partBits, partBits)

\* the product bits, one zero appended, rounded
roundedProduct(bits, point) ==
    roundToNearestEven(Append(bits, 0), FALSE, point + Len(bits) - MantissaBits)

\* float64(v) * x for an integer v >= 0
Float64Times(v, x) ==
    IF v = 0 \/ x.sig = <<>> THEN Float64Zero
    ELSE roundedProduct(timesBits(x.sig, v), x.point)

\* the value of the bits 1..i of sig
RECURSIVE wholePart(_, _, _)
wholePart(sig, i, n) ==
    IF n > i THEN 0 ELSE wholePart(sig, i, n + 1) + sig[n] * 2^(i - n)

\* Fixed64(x) and math.Floor(x) for a float64 x >= 0 below 2^31
Float64Truncated(x) == IF x.point <= 0 THEN 0 ELSE wholePart(x.sig, x.point, 1)

\* floor(reward * 0.25 / n)
individualBlockConfirmRewardExact(reward, n) == FloorDiv(reward, 4 * n)
\* Fixed64(math.Floor(float64(reward) * 0.25 / float64(n)))
individualBlockConfirmReward(reward, n) == Float64Truncated(Float64Quotient(reward, 4 * n))
\* floor(votes * reward * 0.75 / total)
individualProducerRewardExact(votes, reward, total) ==
    FloorDiv(3 * votes * reward, 4 * total)
\* Fixed64(float64(votes) * ((reward - reward * 0.25) / totalVotesInRound)):
\* the quotient is rounded, then the product, then the fraction is cut off
individualProducerReward(votes, reward, total) ==
    Float64Truncated(Float64Times(votes, Float64Quotient(3 * reward, 4 * total)))

\* the loop over the current owner hashes; acc = [m, real]
RECURSIVE payArbitrators(_, _, _, _)
payArbitrators(a, reward, hashes, acc) ==
    IF hashes = <<>> THEN acc
    ELSE LET h == Head(hashes)
             bc == individualBlockConfirmReward(reward, Len(a.currentOwnerProgramHashes))
             pr == individualProducerReward(MapGet(a.ownerVotesInRound, h), reward,
                                            a.totalVotesInRound)
             r == IF h \in crcArbitratorsProgramHashes THEN bc ELSE bc + pr
             m == IF h \in crcArbitratorsProgramHashes
                  THEN MapPut(acc.m, CRCAddress, MapGet(acc.m, CRCAddress) + r)
                  ELSE MapPut(acc.m, h, r)
         IN payArbitrators(a, reward, Tail(hashes), [m |-> m, real |-> acc.real + r])

\* the loop over the candidate owner hashes
RECURSIVE payCandidates(_, _, _, _)
payCandidates(a, reward, hashes, acc) ==
    IF hashes = <<>> THEN acc
    ELSE LET h == Head(hashes)
             pr == individualProducerReward(MapGet(a.ownerVotesInRound, h), reward,
                                            a.totalVotesInRound)
         IN payCandidates(a, reward, Tail(hashes),
                          [m |-> MapPut(acc.m, h, pr), real |-> acc.real + pr])

distributeWithNormalArbitratorsNoVotesNoPay(a, reward) ==
    IF Len(a.currentOwnerProgramHashes) = 0
    THEN [a |-> a, real |-> 0, err |-> "not found arbiters"]
    ELSE IF a.totalVotesInRound = 0
    THEN [a |-> a, real |-> 0, err |-> "nil"]
    ELSE LET acc1 == payArbitrators(a, reward, a.currentOwnerProgramHashes,
                                    [m |-> a.arbitersRoundReward, real |-> 0])
             acc2 == payCandidates(a, reward, a.candidateOwnerProgramHashes, acc1)
         IN [a |-> [a EXCEPT !.arbitersRoundReward = acc2.m],
             real |-> acc2.real, err |-> "nil"]

\* [a, real, err]
distributeWithNormalArbitrators(a, reward) ==
    IF Len(a.currentOwnerProgramHashes) = 0
    THEN [a |-> a, real |-> 0, err |-> "not found arbiters"]
    ELSE IF a.totalVotesInRound = 0
    THEN [a |-> [a EXCEPT !.arbitersRoundReward = MapPut(@, CRCAddress, reward)],
          real |-> 0, err |-> "nil"]
    ELSE LET acc1 == payArbitrators(a, reward, a.currentOwnerProgramHashes,
                                    [m |-> a.arbitersRoundReward, real |-> 0])
             acc2 == payCandidates(a, reward, a.candidateOwnerProgramHashes, acc1)
         IN [a |-> [a EXCEPT !.arbitersRoundReward = acc2.m],
             real |-> acc2.real, err |-> "nil"]

\* the end of distributeDPOSReward: d is what distributeWithNormalArbitrators
\* returned
setFinalRoundChange(d, reward) ==
    IF d.err # "nil" THEN [a |-> d.a, err |-> d.err]
    ELSE IF reward - d.real < 0
    THEN [a |-> d.a, err |-> "real dpos reward more than reward limit"]
    ELSE [a |-> [d.a EXCEPT !.finalRoundChange = reward - d.real], err |-> "nil"]

\* [a, err]
distributeDPOSReward(a, reward) ==
    setFinalRoundChange(
        distributeWithNormalArbitrators(
            [a EXCEPT !.arbitersRoundReward = MapPut(NilMap, CRCAddress, 0)], reward),
        reward)

\* the end of clearingDPOSReward: d is what distributeDPOSReward returned for
\* the pending reward, dposReward what is left to the next round
setClearingHeight(d, block, pending, dposReward) ==
    IF d.err # "nil"
    THEN [a |-> d.a, err |-> d.err, settled |-> TRUE, reward |-> pending]
    ELSE [a |-> [d.a EXCEPT !.accumulativeReward = dposReward,
                            !.clearingHeight = block.height],
          err |-> "nil", settled |-> TRUE, reward |-> pending]

clearingDPOSRewardAgain(a, block, smoothClearing) ==
    LET dposReward == getBlockDPOSReward(block)
        pending == IF smoothClearing THEN a.accumulativeReward + dposReward
                   ELSE a.accumulativeReward
    IN IF block.height + 1 <= PublicDPOSHeight
       THEN [a |-> [a EXCEPT !.accumulativeReward = dposReward], err |-> "nil",
             settled |-> FALSE, reward |-> 0]
       ELSE setClearingHeight(
                distributeDPOSReward([a EXCEPT !.accumulativeReward = pending], pending),
                block, pending, IF smoothClearing THEN 0 ELSE dposReward)

clearingDPOSRewardKeepsNothing(a, block, smoothClearing) ==
    LET dposReward == getBlockDPOSReward(block)
        pending == IF smoothClearing THEN a.accumulativeReward + dposReward
                   ELSE a.accumulativeReward
    IN IF block.height = a.clearingHeight
       THEN [a |-> a, err |-> "nil", settled |-> FALSE, reward |-> 0]
       ELSE IF block.height + 1 <= PublicDPOSHeight
       THEN [a |-> [a EXCEPT !.accumulativeReward = dposReward], err |-> "nil",
             settled |-> FALSE, reward |-> 0]
       ELSE setClearingHeight(
                distributeDPOSReward([a EXCEPT !.accumulativeReward = pending], pending),
                block, pending, 0)

\* [a, err, settled, reward]: settled tells that distributeDPOSReward ran, on reward
clearingDPOSReward(a, block, smoothClearing) ==
    LET dposReward == getBlockDPOSReward(block)
        pending == IF smoothClearing THEN a.accumulativeReward + dposReward
                   ELSE a.accumulativeReward
    IN IF block.height = a.clearingHeight
       THEN [a |-> a, err |-> "nil", settled |-> FALSE, reward |-> 0]
       ELSE IF block.height + 1 <= PublicDPOSHeight
       THEN [a |-> [a EXCEPT !.accumulativeReward = dposReward], err |-> "nil",
             settled |-> FALSE, reward |-> 0]
       ELSE setClearingHeight(
                distributeDPOSReward([a EXCEPT !.accumulativeReward = pending], pending),
                block, pending, IF smoothClearing THEN 0 ELSE dposReward)

(***************************************************************************)
(* Committee manager                                                       *)
(***************************************************************************)
none == "none"
updateNext == "updateNext"
normalChange == "normalChange"

\* [type, version]
getChangeType(a, height) ==
    IF height = CRCOnlyDPOSHeight - PreConnectOffset
    THEN [type |-> updateNext, version |-> CRCOnlyDPOSHeight]
    ELSE IF height = CRCOnlyDPOSHeight
    THEN [type |-> normalChange, version |-> CRCOnlyDPOSHeight]
    ELSE IF height = PublicDPOSHeight - PreConnectOffset
    THEN [type |-> updateNext, version |-> PublicDPOSHeight]
    ELSE IF height = PublicDPOSHeight
    THEN [type |-> normalChange, version |-> PublicDPOSHeight]
    ELSE IF height > PublicDPOSHeight /\ a.dutyIndex = Len(a.currentArbitrators) - 1
    THEN [type |-> normalChange, version |-> height]
    ELSE [type |-> none, version |-> height]

\* the change without the reset of the duty index
changeCurrentArbitratorsKeepDuty(a) ==
    [a EXCEPT !.currentArbitrators = SortKeys(a.nextArbitrators),
              !.nextArbitrators = SortKeys(a.nextArbitrators),
              !.currentCandidates = a.nextCandidates,
              !.currentOwnerProgramHashes = a.nextOwnerProgramHashes,
              !.candidateOwnerProgramHashes = a.nextCandidateOwnerProgramHashes]

\* currentArbitrators shares its backing array with the list that was
\* nextArbitrators, so the in-place sort orders that list too
changeCurrentArbitrators(a) ==
    [a EXCEPT !.currentArbitrators = SortKeys(a.nextArbitrators),
              !.nextArbitrators = SortKeys(a.nextArbitrators),
              !.currentCandidates = a.nextCandidates,
              !.currentOwnerProgramHashes = a.nextOwnerProgramHashes,
              !.candidateOwnerProgramHashes = a.nextCandidateOwnerProgramHashes,
              !.dutyIndex = 0]

\* the comparison of the first sort of the voted producers: votes descending,
\* equal votes by node public key ascending
VotedBefore(p, x, y) ==
    \/ p[x].votes > p[y].votes
    \/ p[x].votes = p[y].votes /\ p[x].node < p[y].node

RECURSIVE SortVoted(_, _)
SortVoted(p, S) ==
    IF S = {} THEN <<>>
    ELSE LET m == CHOOSE x \in S : \A y \in S \ {x} : VotedBefore(p, x, y)
         IN <<m>> \o SortVoted(p, S \ {m})

\* position of x in the list q
IndexOf(q, x) == CHOOSE i \in DOMAIN q : q[i] = x

\* the second sort (GetCandidatesDesc) compares votes only and is not stable:
\* producers with equal votes end in the order the sort routine leaves them
\* in, here the order tie lists them in
RECURSIVE SortByVotes(_, _, _)
SortByVotes(p, S, tie) ==
    IF S = {} THEN <<>>
    ELSE LET m == CHOOSE x \in S : \A y \in S \ {x} :
                      \/ p[x].votes > p[y].votes
                      \/ p[x].votes = p[y].votes /\ IndexOf(tie, x) < IndexOf(tie, y)
         IN <<m>> \o SortByVotes(p, S \ {m}, tie)

RECURSIVE NodeKeys(_, _)
NodeKeys(p, owners) ==
    IF owners = <<>> THEN <<>> ELSE <<p[Head(owners)].node>> \o NodeKeys(p, Tail(owners))

\* [keys, err]; votedProducers is the sorted list of owners
GetNormalArbitratorsDesc(a, height, arbitratorsCount, votedProducers) ==
    CASE height >= PublicDPOSHeight ->
           IF Len(votedProducers) < arbitratorsCount
           THEN [keys |-> <<>>, err |-> "ErrInsufficientProducer"]
           ELSE [keys |-> NodeKeys(a.producers, SubSeq(votedProducers, 1, arbitratorsCount)),
                 err |-> "nil"]
      \* version [H1, H2): the election has the CRC arbiters only
      [] height >= CRCOnlyDPOSHeight /\ height < PublicDPOSHeight ->
           [keys |-> <<>>, err |-> "nil"]

\* producers is the list as the second sort left it
GetCandidatesDesc(a, height, startIndex, producers) ==
    IF height >= PublicDPOSHeight
    THEN IF Len(producers) < startIndex THEN <<>>
         ELSE LET last == IF Len(producers) < startIndex + CandidateArbiters
                          THEN Len(producers) ELSE startIndex + CandidateArbiters
              IN NodeKeys(a.producers, SubSeq(producers, startIndex + 1, last))
    ELSE <<>>

tryHandleErrorReturnsIt(a, height, err) == [a |-> a, err |-> err]
tryHandleError(a, height, err) ==
    IF err = "ErrInsufficientProducer"
    THEN [a |-> TrySetUnderstaffed(a, height), err |-> "nil"]
    ELSE [a |-> a, err |-> err]

\* the keys of a list that belong to no CRC arbiter
RECURSIVE NonCRC(_)
NonCRC(keys) ==
    IF keys = <<>> THEN <<>>
    ELSE IF IsCRCArbitrator(Head(keys)) THEN NonCRC(Tail(keys))
    ELSE <<Head(keys)>> \o NonCRC(Tail(keys))

OwnerOfNode(p, pk) == CHOOSE o \in GetProducer(p, pk) : TRUE

\* one loop of snapshotVotesStates; acc = [m, total]
RECURSIVE snapshotLoop(_, _, _)
snapshotLoop(p, keys, acc) ==
    IF keys = <<>> THEN acc
    ELSE LET o == OwnerOfNode(p, Head(keys))
         IN snapshotLoop(p, Tail(keys),
                [m |-> MapPut(acc.m, PublicKeyToStandardProgramHash(o), p[o].votes),
                 total |-> acc.total + p[o].votes])

\* [a, err]
snapshotVotesStates(a) ==
    LET keys == NonCRC(a.nextArbitrators) \o NonCRC(a.nextCandidates)
        acc == snapshotLoop(a.producers, keys, [m |-> NilMap, total |-> 0])
    IN IF \E i \in DOMAIN keys : GetProducer(a.producers, keys[i]) = {}
       THEN [a |-> [a EXCEPT !.ownerVotesInRound = NilMap, !.totalVotesInRound = 0],
             err |-> "get producer by node public key failed"]
       ELSE [a |-> [a EXCEPT !.ownerVotesInRound = acc.m, !.totalVotesInRound = acc.total],
             err |-> "nil"]

RECURSIVE OwnerHashes(_, _)
OwnerHashes(p, keys) ==
    IF keys = <<>> THEN <<>>
    ELSE LET pk == Head(keys)
             h == IF IsCRCArbitrator(pk) THEN PublicKeyToStandardProgramHash(pk)
                  ELSE PublicKeyToStandardProgramHash(OwnerOfNode(p, pk))
         IN <<h>> \o OwnerHashes(p, Tail(keys))

updateNextOwnerProgramHashes(a) ==
    [a EXCEPT !.nextOwnerProgramHashes = OwnerHashes(a.producers, a.nextArbitrators),
              !.nextCandidateOwnerProgramHashes =
                  OwnerHashes(a.producers, NonCRC(a.nextCandidates))]

\* the end of updateNextArbitrators: s is what snapshotVotesStates returned
afterSnapshot(s) ==
    IF s.err # "nil" THEN s
    ELSE [a |-> updateNextOwnerProgramHashes(s.a), err |-> "nil"]

\* the election of the producers: n is what GetNormalArbitratorsDesc returned,
\* handled what tryHandleError makes of its error
electProducers(a, height, nd, n, handled) ==
    IF n.err # "nil"
    THEN IF handled.err # "nil" THEN [a |-> a, err |-> handled.err]
         ELSE afterSnapshot(snapshotVotesStates([handled.a EXCEPT !.nextCandidates = <<>>]))
    ELSE afterSnapshot(snapshotVotesStates(
             [a EXCEPT !.nextArbitrators = @ \o n.keys,
                       !.nextCandidates =
                           GetCandidatesDesc(a, height, GeneralArbiters,
                               SortByVotes(a.producers, GetVotedProducers(a.producers),
                                           nd.tie))]))

\* a has the CRC arbiters in nextArbitrators
electNext(a, height, nd, n) ==
    IF IsInactiveMode(a) \/ IsUnderstaffedMode(a)
    THEN afterSnapshot(snapshotVotesStates([a EXCEPT !.nextCandidates = <<>>]))
    ELSE electProducers(a, height, nd, n, tryHandleError(a, height, n.err))

\* the CRC arbiters are listed in the order the map is iterated in
listCRC(a, height, nd) ==
    electNext(a, height, nd,
        GetNormalArbitratorsDesc(a, height, GeneralArbiters,
            SortVoted(a.producers, GetVotedProducers(a.producers))))

\* [a, err]; nd.crc is the order in which the CRC map is iterated, nd.tie the
\* order the second sort leaves producers with equal votes in
updateNextArbitrators(a, height, nd) ==
    listCRC([TryLeaveUnderStaffed(a) EXCEPT !.nextArbitrators = nd.crc], height, nd)

\* [a, err]
NormalChange(a, height, nd) == updateNextArbitrators(changeCurrentArbitrators(a), height + 1, nd)

(***************************************************************************)
(* Engine entry points.  a.mtx tells that the engine mutex is held;        *)
(* a.halted tells why the calling thread no longer runs ("panic", or       *)
(* "blocked" on a mutex that is never released).                           *)
(***************************************************************************)
\* a panic leaves the calling thread dead and the mutex held
panicked(a) == [a EXCEPT !.halted = "panic", !.mtx = TRUE]

\* the end of IncreaseChainHeight; r = [a, err] is what the change returned
endOfChangeKeepsTable(r) == IF r.err # "nil" THEN panicked(r.a) ELSE r.a
endOfChange(r) ==
    IF r.err # "nil" THEN panicked(r.a)
    ELSE [r.a EXCEPT !.illegalBlocksPayloadHashes = {}]

\* case normalChange; c is what clearingDPOSReward returned
normalChangeCleared(c, block, nd, version) ==
    [a |-> IF c.err # "nil" THEN panicked(c.a)
           ELSE endOfChange(NormalChange(c.a, block.height, nd)),
     changeType |-> normalChange, version |-> version,
     settled |-> c.settled, reward |-> c.reward]

\* the switch of IncreaseChainHeight; ct is what getChangeType returned
applyChange(a, block, nd, ct) ==
    CASE ct.type = updateNext ->
           [a |-> endOfChange(updateNextArbitrators(a, ct.version, nd)),
            changeType |-> updateNext, version |-> ct.version,
            settled |-> FALSE, reward |-> 0]
      [] ct.type = normalChange ->
           normalChangeCleared(clearingDPOSReward(a, block, TRUE), block, nd, ct.version)
      [] ct.type = none ->
           [a |-> endOfChange([a |-> [accumulateReward(a, block) EXCEPT !.dutyIndex = @ + 1],
                               err |-> "nil"]),
            changeType |-> none, version |-> ct.version,
            settled |-> FALSE, reward |-> 0]

\* [a, changeType, version, settled, reward]
IncreaseChainHeight(a, block, nd) ==
    IF a.mtx
    THEN [a |-> [a EXCEPT !.halted = "blocked"], changeType |-> "blocked",
          version |-> 0, settled |-> FALSE, reward |-> 0]
    ELSE applyChange(a, block, nd, getChangeType(a, block.height + 1))

\* arbitrators.ProcessBlock: the registry first, then the committee
ProcessBlockResult(a, block, nd) == IncreaseChainHeight(StateProcessBlock(a, block), block, nd)

\* the end of ForceChange; c is what clearingDPOSReward returned, u what
\* updateNextArbitrators returned
forceUpdatedWithoutPromotion(c, u) ==
    IF u.err # "nil"
    THEN [a |-> u.a, err |-> u.err, settled |-> c.settled, reward |-> c.reward]
    ELSE [a |-> [u.a EXCEPT !.mtx = FALSE], err |-> "nil",
          settled |-> c.settled, reward |-> c.reward]
forceUpdated(c, u) ==
    IF u.err # "nil"
    THEN [a |-> u.a, err |-> u.err, settled |-> c.settled, reward |-> c.reward]
    ELSE [a |-> [changeCurrentArbitrators(u.a) EXCEPT !.mtx = FALSE], err |-> "nil",
          settled |-> c.settled, reward |-> c.reward]

forceCleared(c, height, nd) ==
    IF c.err # "nil"
    THEN [a |-> c.a, err |-> c.err, settled |-> c.settled, reward |-> c.reward]
    ELSE forceUpdated(c, updateNextArbitrators(c.a, height + 1, nd))

\* [a, err, settled, reward]; best = [err, block] is what bestBlock() returns.
\* Every error return leaves the mutex held.
ForceChange(a, height, best, nd) ==
    IF a.mtx
    THEN [a |-> [a EXCEPT !.halted = "blocked"], err |-> "blocked",
          settled |-> FALSE, reward |-> 0]
    ELSE IF best.err # "nil"
    THEN [a |-> [a EXCEPT !.mtx = TRUE], err |-> best.err, settled |-> FALSE, reward |-> 0]
    ELSE forceCleared(clearingDPOSReward([a EXCEPT !.mtx = TRUE], best.block, FALSE),
                      height, nd)

GetArbitersCount(a) == Len(a.currentArbitrators)

(***************************************************************************)
(* Duty lookups                                                            *)
(***************************************************************************)
\* a nil []byte
NilArbiter == 0

\* the remainder of Go's %, which has the sign of the dividend
GoRem(x, n) == IF x >= 0 THEN x % n ELSE 0 - ((0 - x) % n)

\* arbitrators[index]: [arbiter, err]; an index out of range panics
indexed(arbitrators, index) ==
    IF index < 0 \/ index >= Len(arbitrators)
    THEN [arbiter |-> NilArbiter, err |-> "panic"]
    ELSE [arbiter |-> arbitrators[index + 1], err |-> "nil"]

\* the legacy rule: the origin arbiters, indexed by the height
getNextOnDutyArbitratorV0(a, height, offset) ==
    indexed(OriginArbiters, (height + offset) % Len(OriginArbiters))

\* a lookup that leaves the offset out
GetNextOnDutyArbitratorVNoOffset(a, height, offset) ==
    IF height >= CRCOnlyDPOSHeight
    THEN IF Len(a.currentArbitrators) = 0 THEN [arbiter |-> NilArbiter, err |-> "nil"]
         ELSE indexed(a.currentArbitrators,
                      GoRem(a.dutyIndex, Len(a.currentArbitrators)))
    ELSE getNextOnDutyArbitratorV0(a, height, offset)

\* arbitrators.GetNextOnDutyArbitratorV: [arbiter, err]
GetNextOnDutyArbitratorV(a, height, offset) ==
    IF height >= CRCOnlyDPOSHeight
    THEN IF Len(a.currentArbitrators) = 0 THEN [arbiter |-> NilArbiter, err |-> "nil"]
         ELSE indexed(a.currentArbitrators,
                      GoRem(a.dutyIndex + offset, Len(a.currentArbitrators)))
    ELSE getNextOnDutyArbitratorV0(a, height, offset)

\* bestHeight is the height of the host's best block
GetNextOnDutyArbitrator(a, bestHeight, offset) ==
    GetNextOnDutyArbitratorV(a, bestHeight + 1, offset)

GetOnDutyArbitrator(a, bestHeight) == GetNextOnDutyArbitratorV(a, bestHeight + 1, 0)

(***************************************************************************)
(* Illegal-evidence sink (CheckDPOSIllegalTx, ProcessSpecialTxPayload)     *)
(***************************************************************************)
\* the special payloads: p = [kind, owner], owner the producer it accuses
PayloadKinds == <<"DPOSIllegalBlocks", "DPOSIllegalProposals", "InactiveArbitrators">>
KindCode(kind) == CHOOSE i \in DOMAIN PayloadKinds : PayloadKinds[i] = kind
\* Hash(): the digest of the serialized payload; payloads that differ have
\* digests that differ
PayloadHash(p) == 1000 * KindCode(p.kind) + p.owner

\* Transaction.IsIllegalBlockTx
IsIllegalBlockTx(tx) == tx.type = "illegal"

\* the payload hashes CheckDPOSIllegalTx finds in the block
RECURSIVE foundHashes(_)
foundHashes(txs) ==
    IF txs = <<>> THEN {}
    ELSE (IF IsIllegalBlockTx(Head(txs)) THEN {PayloadHash(Head(txs).payload)} ELSE {})
         \cup foundHashes(Tail(txs))

\* a check that is content with one expected hash found
CheckDPOSIllegalTxAnyFound(a, block) ==
    IF a.mtx THEN [a |-> [a EXCEPT !.halted = "blocked"], err |-> "blocked"]
    ELSE IF a.illegalBlocksPayloadHashes = {} THEN [a |-> a, err |-> "nil"]
    ELSE IF a.illegalBlocksPayloadHashes \cap foundHashes(block.txs) = {}
    THEN [a |-> a, err |-> "expect an illegal blocks transaction in this block"]
    ELSE [a |-> a, err |-> "nil"]

\* arbitrators.CheckDPOSIllegalTx: [a, err]
CheckDPOSIllegalTx(a, block) ==
    IF a.mtx THEN [a |-> [a EXCEPT !.halted = "blocked"], err |-> "blocked"]
    ELSE IF a.illegalBlocksPayloadHashes = {} THEN [a |-> a, err |-> "nil"]
    ELSE IF \E h \in a.illegalBlocksPayloadHashes : h \notin foundHashes(block.txs)
    THEN [a |-> a, err |-> "expect an illegal blocks transaction in this block"]
    ELSE [a |-> a, err |-> "nil"]

\* degradation.AddInactivePayload: [a, ok], ok is false for a payload
\* that is there already
AddInactivePayload(a, p) ==
    [a |-> [a EXCEPT !.inactiveTxs = @ \cup {PayloadHash(p)}],
     ok |-> PayloadHash(p) \notin a.inactiveTxs]

\* State.ProcessSpecialTxPayload(p, height)
statePayload(a, p) ==
    IF p.kind = "InactiveArbitrators" THEN a
    ELSE StateProcessSpecialTxPayload(a, p.owner)

\* the end of ProcessSpecialTxPayload; r is what AddInactivePayload returned
inactivePayloadAdded(r, p, height, best, nd) ==
    IF ~r.ok THEN [a |-> r.a, err |-> "nil", settled |-> FALSE, reward |-> 0]
    ELSE ForceChange(statePayload(r.a, p), height, best, nd)

\* arbitrators.ProcessSpecialTxPayload: [a, err, settled, reward]
ProcessSpecialTxPayload(a, p, height, best, nd) ==
    CASE p.kind = "DPOSIllegalBlocks" ->
           IF a.mtx
           THEN [a |-> [a EXCEPT !.halted = "blocked"], err |-> "blocked",
                 settled |-> FALSE, reward |-> 0]
           ELSE ForceChange(
                    statePayload([a EXCEPT !.illegalBlocksPayloadHashes =
                                               @ \cup {PayloadHash(p)}], p),
                    height, best, nd)
      [] p.kind = "InactiveArbitrators" ->
           inactivePayloadAdded(AddInactivePayload(a, p), p, height, best, nd)
      [] OTHER ->
           [a |-> a, err |-> "[ProcessSpecialTxPayload] invalid payload type",
            settled |-> FALSE, reward |-> 0]

\* the branch of DecreaseChainHeight that forces a change; f is what
\* ForceChange returned
forcedDutyIndex(f, heightOffset) ==
    [a |-> IF f.err # "nil" THEN f.a
           ELSE [f.a EXCEPT !.dutyIndex =
                               GetArbitersCount(f.a) - heightOffset + f.a.dutyIndex],
     err |-> f.err, settled |-> f.settled, reward |-> f.reward, forced |-> TRUE]

\* a is the engine once degradation.RollbackTo has run
decreaseBy(a, height, best, nd, heightOffset) ==
    IF a.dutyIndex = 0 \/ a.dutyIndex < heightOffset
    THEN forcedDutyIndex(ForceChange(a, height, best, nd), heightOffset)
    ELSE [a |-> [a EXCEPT !.dutyIndex = a.dutyIndex - heightOffset], err |-> "nil",
          settled |-> FALSE, reward |-> 0, forced |-> FALSE]

\* [a, err, settled, reward, forced]; called once State.RollbackTo has
\* returned; forced tells that ForceChange was called
DecreaseChainHeight(a, height, best, nd) ==
    decreaseBy(degradationRollbackTo(a, height), height, best, nd,
               a.history.height - height)

\* the end of arbitrators.RollbackTo; r is what State.RollbackTo returned
rolledBack(a, r, height, best, nd) ==
    IF r.err # "nil"
    THEN [a |-> a, err |-> r.err, settled |-> FALSE, reward |-> 0, forced |-> FALSE]
    ELSE DecreaseChainHeight(r.s, height, best, nd)

\* arbitrators.RollbackTo: [a, err, settled, reward, forced]
RollbackToResult(a, height, best, nd) ==
    IF height > a.history.height
    THEN [a |-> a, err |-> "can't rollback", settled |-> FALSE, reward |-> 0,
          forced |-> FALSE]
    ELSE rolledBack(a, StateRollbackTo(a, height), height, best, nd)

\* float64(m) / d truncated to an int.  m and d are small integers, so m is
\* exact as a float; the quotient is rounded to the nearest representable
\* value and then truncated.  The rounding is done here on a grid of
\* 2^-FractionBits, which is coarser than the float64 grid for every value
\* below 2^32: a quotient that float64 rounds up to the next integer is
\* rounded up on this grid too.
FractionBits == 20
RoundedQuotient(m, d) ==
    LET scaled == m * 2^FractionBits
        q == scaled \div d
        r == scaled % d
    IN IF 2 * r > d \/ (2 * r = d /\ q % 2 = 1) THEN q + 1 ELSE q
TruncatedQuotient(m, d) == RoundedQuotient(m, d) \div 2^FractionBits

MajoritySignRatioNumerator == 2
MajoritySignRatioDenominator == 3

\* the ratio 2/3 taken in integers before the multiplication
GetArbitersMajorityCountIntRatio(a) ==
    Len(a.currentArbitrators) * (MajoritySignRatioNumerator \div MajoritySignRatioDenominator)

GetArbitersMajorityCount(a) ==
    TruncatedQuotient(Len(a.currentArbitrators) * MajoritySignRatioNumerator,
                      MajoritySignRatioDenominator)
HasArbitersMajorityCount(a, num) == num > GetArbitersMajorityCount(a)
HasArbitersMinorityCount(a, num) ==
    LET count == Len(a.currentArbitrators)
    IN num >= count - GetArbitersMajorityCount(a)

\* queries
GetArbitrators(a) == a.currentArbitrators
GetCandidates(a) == a.currentCandidates
GetNextArbitrators(a) == a.nextArbitrators
GetNextCandidates(a) == a.nextCandidates
GetDutyIndex(a) == a.dutyIndex
GetArbitersRoundReward(a) == a.arbitersRoundReward
GetFinalRoundChange(a) == a.finalRoundChange

(***************************************************************************)
(* The state machine                                                       *)
(***************************************************************************)
VARIABLES
    a,      \* the engine: the arbitrators struct with its State and degradation
    chain,  \* the host's chain: its latest blocks, the best block last
    regAt,  \* the producer registry as it was after each block of chain
    host,   \* number of transactions and rollbacks the host has issued so far
    last,   \* what the latest call did and returned
    view,   \* the view the latest GetHistory returned
    saved,  \* the engine as it was before the latest rollback, and the blocks undone
    served, \* blocks processed since the current committee took office, and what
            \* put it in office
    missed, \* per producer, the confirmed blocks in a row it neither sponsored
            \* nor signed as an arbitrator, counted from PublicDPOSHeight on
    calls   \* the queries in flight on other threads: where each one is and
            \* what it has read so far

vars == <<a, chain, regAt, host, last, view, saved, served, missed, calls>>

RECURSIVE HashesOf(_)
HashesOf(keys) ==
    IF keys = <<>> THEN <<>>
    ELSE <<PublicKeyToStandardProgramHash(Head(keys))>> \o HashesOf(Tail(keys))

\* NewArbitrators
NewArbitrators ==
    [dutyIndex |-> 0,
     currentArbitrators |-> OriginArbiters,
     currentCandidates |-> <<>>,
     currentOwnerProgramHashes |-> HashesOf(OriginArbiters),
     candidateOwnerProgramHashes |-> <<>>,
     nextOwnerProgramHashes |-> HashesOf(OriginArbiters),
     nextCandidateOwnerProgramHashes |-> <<>>,
     ownerVotesInRound |-> NilMap,
     totalVotesInRound |-> 0,
     nextArbitrators |-> OriginArbiters,
     nextCandidates |-> <<>>,
     accumulativeReward |-> 0,
     finalRoundChange |-> 0,
     clearingHeight |-> 0,
     arbitersRoundReward |-> NilMap,
     illegalBlocksPayloadHashes |-> {},
     inactiveTxs |-> {},
     crcArbiters |-> CRCArbiters,
     degState |-> "Normal",
     understaffedSince |-> 0,
     producers |-> [o \in Owners |-> NoProducer],
     nicknames |-> {},
     history |-> [height |-> 0, changes |-> <<>>, temp |-> <<>>],
     mtx |-> FALSE,
     started |-> FALSE,
     halted |-> "no"]

GenesisBlock == [height |-> 0, txs |-> <<>>]
NoLast == [op |-> "New", height |-> 0, changeType |-> "", settled |-> FALSE, reward |-> 0,
           err |-> "nil", limit |-> 0, arg |-> 0, ret |-> <<>>, version |-> 0, forced |-> FALSE,
           released |-> 0, accused |-> 0, requester |-> 0, requestAt |-> 0]
NewCommittee == [blocks |-> 0, by |-> "New"]
NoView == <<>>
NotSaved == [on |-> FALSE, orig |-> <<>>, todo |-> <<>>]
NoneMissed == [o \in Owners |-> 0]
NoCalls == <<>>

Init ==
    /\ a = NewArbitrators
    /\ chain = <<GenesisBlock>>
    /\ regAt = <<NewArbitrators.producers>>
    /\ host = 0
    /\ last = NoLast
    /\ view = NoView
    /\ saved = NotSaved
    /\ served = NewCommittee
    /\ missed = NoneMissed
    /\ calls = NoCalls

\* the engine fields rollback symmetry speaks of
EngineFields(x) ==
    [producers |-> x.producers,
     currentArbitrators |-> x.currentArbitrators,
     currentCandidates |-> x.currentCandidates,
     nextArbitrators |-> x.nextArbitrators,
     nextCandidates |-> x.nextCandidates,
     dutyIndex |-> x.dutyIndex,
     accumulativeReward |-> x.accumulativeReward,
     clearingHeight |-> x.clearingHeight,
     arbitersRoundReward |-> x.arbitersRoundReward,
     finalRoundChange |-> x.finalRoundChange,
     ownerVotesInRound |-> x.ownerVotesInRound,
     totalVotesInRound |-> x.totalVotesInRound,
     degState |-> x.degState]

\* the transactions the host may put in the next block: valid ones only
RegisterTxs(p) == {[type |-> "register", owner |-> o, nick |-> o, fee |-> TxFee] :
                      o \in {x \in Owners : p[x].status = "None"}}
CancelTxs(p) == {[type |-> "cancel", owner |-> o, fee |-> TxFee] :
                    o \in {x \in Owners : p[x].status \in {"Pending", "Active"}}}
VoteTxs(p) == {[type |-> "vote", owners |-> S, value |-> 1, fee |-> TxFee] :
                  S \in {T \in SUBSET Owners : T # {} /\ \A x \in T :
                            p[x].status \in {"Pending", "Active"} /\ p[x].votes < MaxVotes}}
BlockTxs(p) ==
    {<<>>} \cup IF host < MaxEvents
                THEN {<<tx>> : tx \in RegisterTxs(p) \cup CancelTxs(p) \cup VoteTxs(p)}
                ELSE {}

\* what the runtime leaves open: map iteration order, order of equal elements
NonDet == [crc : Orderings(Range(CRCArbiters)), tie : Orderings(Owners)]
\* one of these orders, for the steps that meet none of the two
SomeOrder == [crc |-> CRCArbiters, tie |-> SetToSortedSeq(Owners)]

\* the last n entries of a list
LastN(q, n) == IF Len(q) <= n THEN q ELSE SubSeq(q, Len(q) - n + 1, Len(q))
\* the entries of the block list q up to height h
RECURSIVE UpTo(_, _)
UpTo(q, h) == IF q = <<>> \/ q[Len(q)].height <= h THEN q
              ELSE UpTo(SubSeq(q, 1, Len(q) - 1), h)
\* the blocks of q above height h
RECURSIVE Above(_, _)
Above(q, h) == IF q = <<>> \/ q[Len(q)].height <= h THEN <<>>
               ELSE Append(Above(SubSeq(q, 1, Len(q) - 1), h), q[Len(q)])

\* arbitrators.ProcessBlock on the block of these transactions
ConnectBlock(txs, nd) ==
         LET block == [height |-> a.history.height + 1, txs |-> txs]
         IN \E r \in {ProcessBlockResult(a, block, nd)} :
            /\ getChangeType(a, block.height + 1).type = none => nd = SomeOrder
            /\ a' = r.a
            /\ chain' = LastN(Append(chain, block), maxHistoryCapacity + 1)
            /\ regAt' = LastN(Append(regAt, r.a.producers), maxHistoryCapacity + 1)
            /\ host' = host + Len(txs)
            /\ last' = [NoLast EXCEPT !.op = "ProcessBlock", !.height = block.height,
                                      !.changeType = r.changeType,
                                      !.version = r.version,
                                      !.settled = r.settled, !.reward = r.reward]
            /\ served' = IF r.changeType = normalChange
                         THEN [blocks |-> 0, by |-> normalChange]
                         ELSE [served EXCEPT !.blocks = @ + 1]
            /\ view' = NoView
            /\ saved' = IF saved.on /\ saved.todo # <<>> /\ Head(saved.todo) = block
                        THEN [saved EXCEPT !.todo = Tail(@)]
                        ELSE NotSaved

\* the host connects the next block
ProcessBlock ==
    /\ a.halted = "no"
    /\ a.history.height < MaxHeight
    /\ \E txs \in BlockTxs(a.producers), nd \in NonDet : ConnectBlock(txs, nd)
    /\ UNCHANGED <<missed, calls>>

\* the engine is rolled back to height; berr is what bestBlock() meets
RollBack(height, nd, berr) ==
         /\ height + 1 >= CRCOnlyDPOSHeight
         /\ height + 1 >= limitHeight(a.history)
         /\ LET kept == UpTo(chain, height)
                best == [err |-> berr,
                         block |-> IF kept = <<>> THEN GenesisBlock ELSE kept[Len(kept)]]
            IN \E r \in {RollbackToResult(a, height, best, nd)} :
               LET ok == r.err = "nil"
                   \* State.RollbackTo has taken place
                   rolled == r.a.history # a.history \/ ok
               IN /\ ~r.forced => nd = SomeOrder /\ berr = "nil"
                  /\ a' = r.a
                  /\ chain' = IF rolled THEN kept ELSE chain
                  /\ regAt' = IF rolled THEN SubSeq(regAt, 1, Len(kept)) ELSE regAt
                  /\ host' = host + 1
                  /\ last' = [NoLast EXCEPT !.op = "RollbackTo", !.height = height,
                                            !.settled = r.settled, !.reward = r.reward,
                                            !.err = r.err, !.forced = r.forced]
                  /\ served' = IF ok /\ r.forced THEN [blocks |-> 0, by |-> "ForceChange"]
                               ELSE served
                  /\ view' = NoView
                  /\ saved' = IF ok /\ height < a.history.height
                              THEN [on |-> TRUE, orig |-> EngineFields(a),
                                    todo |-> Above(chain, height)]
                              ELSE NotSaved

\* the host detects a reorganisation and rolls the engine back
RollbackTo ==
    /\ a.halted = "no"
    /\ host < MaxEvents
    /\ \E height \in 0..(a.history.height + 1), nd \in NonDet,
          berr \in {"nil", "StorageFailure"} : RollBack(height, nd, berr)
    /\ UNCHANGED <<missed, calls>>

Next == ProcessBlock \/ RollbackTo

Spec == Init /\ [][Next]_vars

(***************************************************************************)
(* The producer registry on its own (type State), as state_test.go drives  *)
(* it: ProcessBlock, RollbackTo and GetHistory of State.                   *)
(***************************************************************************)
\* blocks the registry is driven through
MaxStateHeight == 7

\* State.ProcessBlock on the next block
StateBlock ==
    /\ a.history.height < MaxStateHeight
    /\ \E txs \in BlockTxs(a.producers) :
         LET block == [height |-> a.history.height + 1, txs |-> txs]
             s == StateProcessBlock(a, block)
         IN /\ a' = s
            /\ chain' = LastN(Append(chain, block), maxHistoryCapacity + 1)
            /\ regAt' = LastN(Append(regAt, s.producers), maxHistoryCapacity + 1)
            /\ host' = host + Len(txs)
            /\ last' = [NoLast EXCEPT !.op = "ProcessBlock", !.height = block.height]
            /\ view' = NoView
            /\ saved' = NotSaved
            /\ UNCHANGED served
    /\ UNCHANGED <<missed, calls>>

\* State.RollbackTo(height), for a height up to the tip
StateRollback ==
    /\ host < MaxEvents
    /\ \E height \in 0..a.history.height :
         LET r == StateRollbackTo(a, height)
             ok == r.err = "nil"
             kept == UpTo(chain, height)
         IN /\ a' = r.s
            /\ chain' = IF ok THEN kept ELSE chain
            /\ regAt' = IF ok THEN SubSeq(regAt, 1, Len(kept)) ELSE regAt
            /\ host' = host + 1
            /\ last' = [NoLast EXCEPT !.op = "RollbackTo", !.height = height,
                                      !.err = r.err, !.limit = r.limit]
            /\ view' = NoView
            /\ saved' = IF ok THEN [on |-> TRUE, orig |-> EngineFields(a),
                                    todo |-> Above(chain, height)]
                        ELSE NotSaved
            /\ UNCHANGED served
    /\ UNCHANGED <<missed, calls>>

\* State.GetHistory(height), for a height up to the tip
GetHistory ==
    /\ last.op # "GetHistory"
    /\ \E height \in 0..a.history.height :
         LET r == StateGetHistory(a, height)
         IN /\ a' = r.s
            /\ last' = [NoLast EXCEPT !.op = "GetHistory", !.height = height,
                                      !.err = r.err, !.limit = r.limit]
            /\ view' = IF r.err = "nil" THEN r.view ELSE NoView
            /\ UNCHANGED <<chain, regAt, host, saved, served>>
    /\ UNCHANGED <<missed, calls>>

NextState == StateBlock \/ StateRollback \/ GetHistory

SpecState == Init /\ [][NextState]_vars

(***************************************************************************)
(* The scenario of TestState_ProcessTransaction: ten producers, the block   *)
(* at height i registers producer i or carries nothing.                    *)
(***************************************************************************)
TestProducers == 10
TestOwners == 1..TestProducers

InitTest ==
    /\ a = [NewArbitrators EXCEPT !.producers = [o \in TestOwners |-> NoProducer]]
    /\ chain = <<GenesisBlock>>
    /\ regAt = <<[o \in TestOwners |-> NoProducer]>>
    /\ host = 0
    /\ last = NoLast
    /\ view = NoView
    /\ saved = NotSaved
    /\ served = NewCommittee
    /\ missed = NoneMissed
    /\ calls = NoCalls

TestBlock ==
    /\ a.history.height < TestProducers
    /\ \E txs \in {<<>>, <<[type |-> "register", owner |-> a.history.height + 1,
                           nick |-> a.history.height + 1, fee |-> TxFee]>>} :
         LET block == [height |-> a.history.height + 1, txs |-> txs]
             s == StateProcessBlock(a, block)
         IN /\ a' = s
            /\ chain' = LastN(Append(chain, block), maxHistoryCapacity + 1)
            /\ regAt' = LastN(Append(regAt, s.producers), maxHistoryCapacity + 1)
            /\ host' = host + Len(txs)
            /\ last' = [NoLast EXCEPT !.op = "ProcessBlock", !.height = block.height]
            /\ UNCHANGED <<view, saved, served>>
    /\ UNCHANGED <<missed, calls>>

SpecStateTest == InitTest /\ [][TestBlock]_vars

(***************************************************************************)
(* The majority counts of a committee of every size                        *)
(***************************************************************************)
\* largest committee
MaxCommittee == 256

InitMajority ==
    /\ \E n \in 1..MaxCommittee :
         a = [NewArbitrators EXCEPT !.currentArbitrators = [i \in 1..n |-> 1000 + i]]
    /\ chain = <<GenesisBlock>>
    /\ regAt = <<NewArbitrators.producers>>
    /\ host = 0
    /\ last = NoLast
    /\ view = NoView
    /\ saved = NotSaved
    /\ served = NewCommittee
    /\ missed = NoneMissed
    /\ calls = NoCalls

\* a caller asks whether num signatures are a majority, a minority
AskMajority ==
    /\ last.op = "New"
    /\ \E num \in 0..(Len(a.currentArbitrators) + 1) :
         last' = [NoLast EXCEPT !.op = "Majority", !.arg = num,
                               !.ret = <<GetArbitersMajorityCount(a),
                                         HasArbitersMajorityCount(a, num),
                                         HasArbitersMinorityCount(a, num)>>]
    /\ UNCHANGED <<a, chain, regAt, host, view, saved, served>>
    /\ UNCHANGED <<missed, calls>>

SpecMajority == InitMajority /\ [][AskMajority]_vars

(***************************************************************************)
(* The registry under registrations, updates, cancellations and illegal    *)
(* evidence, in blocks and as special payloads between blocks              *)
(* (TestState_NicknameExists, TestState_ProcessIllegalBlockEvidence).      *)
(***************************************************************************)
\* nicknames a producer may take
Nicks == {1, 2, 3}

\* State.NicknameExists
NicknameExists(s, n) == n \in s.nicknames

\* producers that hold their nickname: not Canceled, Illegal or Returned
HoldsNickname(p, o) == p[o].status \in {"Pending", "Active", "Inactive"}

\* the transactions the host may put in the next block: valid ones only
NickRegisterTxs(s) ==
    {[type |-> "register", owner |-> o, nick |-> n, fee |-> TxFee] :
        o \in {x \in Owners : s.producers[x].status = "None"},
        n \in {x \in Nicks : ~NicknameExists(s, x)}}
UpdateTxs(s) ==
    {[type |-> "update", owner |-> o, nick |-> n, node |-> NodeKeyOf(o), fee |-> TxFee] :
        o \in {x \in Owners : s.producers[x].status \in {"Pending", "Active"}},
        n \in {x \in Nicks : ~NicknameExists(s, x)}}
IllegalTxs(s) ==
    {[type |-> "illegal", owner |-> o, fee |-> TxFee] :
        o \in {x \in Owners : s.producers[x].status # "None"}}
RegistryTxs(s) ==
    {<<>>} \cup IF host < MaxEvents
                THEN {<<tx>> : tx \in NickRegisterTxs(s) \cup UpdateTxs(s)
                                     \cup CancelTxs(s.producers) \cup IllegalTxs(s)}
                ELSE {}

\* the nickname the transactions take from the producer that held it
Released(s, txs) ==
    IF txs = <<>> \/ txs[1].type = "register" THEN 0
    ELSE IF txs[1].type = "illegal" /\ s.producers[txs[1].owner].status # "Active" THEN 0
    ELSE s.producers[txs[1].owner].nick

\* State.ProcessBlock on the next block
RegistryBlock ==
    /\ a.history.height < MaxStateHeight
    /\ \E txs \in RegistryTxs(dropProvisional(a)) :
         LET block == [height |-> a.history.height + 1, txs |-> txs]
         IN \E s \in {StateProcessBlock(a, block)} :
            /\ a' = s
            /\ chain' = LastN(Append(chain, block), maxHistoryCapacity + 1)
            /\ regAt' = LastN(Append(regAt, s.producers), maxHistoryCapacity + 1)
            /\ host' = host + Len(txs)
            /\ last' = [NoLast EXCEPT !.op = "ProcessBlock", !.height = block.height,
                                      !.released = Released(dropProvisional(a), txs),
                                      !.accused = IF last.op = "SpecialPayload"
                                                  THEN last.accused ELSE 0]
            /\ view' = NoView
            /\ saved' = NotSaved
            /\ UNCHANGED served
    /\ UNCHANGED <<missed, calls>>

\* State.ProcessSpecialTxPayload: illegal evidence arrives between blocks
SpecialPayload ==
    /\ host < MaxEvents
    /\ last.op = "ProcessBlock"
    /\ \E o \in {x \in Owners : a.producers[x].status # "None"} :
         /\ a' = StateProcessSpecialTxPayload(a, o)
         /\ host' = host + 1
         /\ last' = [NoLast EXCEPT !.op = "SpecialPayload", !.height = a.history.height,
                                   !.released = Released(a, <<[type |-> "illegal",
                                                               owner |-> o]>>),
                                   !.accused = o]
         /\ view' = NoView
         /\ saved' = NotSaved
         /\ UNCHANGED <<chain, regAt, served>>
    /\ UNCHANGED <<missed, calls>>

NextRegistry == RegistryBlock \/ SpecialPayload \/ StateRollback

SpecRegistry == Init /\ [][NextRegistry]_vars

(***************************************************************************)
(* The registry under vote outputs and their spending                      *)
(* (TestState_ProcessBlock, TestState_IsDPOSTransaction).                  *)
(***************************************************************************)
\* transactions and rollbacks the host issues in the vote scenario
MaxVoteEvents == 5
\* highest block of the vote scenario
MaxVoteHeight == 5

\* the vote outputs of the blocks q: one per vote transaction, named by the
\* height of its block
RECURSIVE VoteOutputs(_)
VoteOutputs(q) ==
    IF q = <<>> THEN {}
    ELSE VoteOutputs(Tail(q))
         \cup {[ref |-> Head(q).height, owners |-> tx.owners, value |-> tx.value] :
                  tx \in {x \in Range(Head(q).txs) : x.type = "vote"}}

\* the outputs the blocks q spend
RECURSIVE SpentRefs(_)
SpentRefs(q) ==
    IF q = <<>> THEN {}
    ELSE SpentRefs(Tail(q))
         \cup {tx.ref : tx \in {x \in Range(Head(q).txs) : x.type = "cancelVote"}}

\* the unspent vote outputs of the chain q
Unspent(q) == {out \in VoteOutputs(q) : out.ref \notin SpentRefs(q)}

RECURSIVE SumValues(_)
SumValues(outs) ==
    IF outs = {} THEN 0
    ELSE LET out == CHOOSE x \in outs : TRUE IN out.value + SumValues(outs \ {out})

\* sum of the unspent vote outputs of q that refer to producer o
UnspentVotes(q, o) == SumValues({out \in Unspent(q) : o \in out.owners})

\* the transactions the host may put in the next block: valid ones only
VoteOutputTxs(p) ==
    {[type |-> "vote", owners |-> S, value |-> v, fee |-> TxFee] :
        S \in {X \in SUBSET Owners : X # {} /\ \A x \in X :
                  p[x].status \in {"Pending", "Active"}},
        v \in 1..MaxVotes}
CancelVoteTxs(q) ==
    {[type |-> "cancelVote", ref |-> out.ref, owners |-> out.owners, value |-> out.value,
      fee |-> TxFee] : out \in Unspent(q)}
VoteTxsOf(p, q) ==
    {<<>>} \cup IF host < MaxVoteEvents
                THEN {<<tx>> : tx \in RegisterTxs(p) \cup CancelTxs(p)
                                     \cup VoteOutputTxs(p) \cup CancelVoteTxs(q)}
                ELSE {}

\* State.ProcessBlock on the next block
VoteBlock ==
    /\ a.history.height < MaxVoteHeight
    /\ \E txs \in VoteTxsOf(a.producers, chain) :
         LET block == [height |-> a.history.height + 1, txs |-> txs]
         IN \E s \in {StateProcessBlock(a, block)} :
            /\ a' = s
            /\ chain' = Append(chain, block)
            /\ regAt' = Append(regAt, s.producers)
            /\ host' = host + Len(txs)
            /\ last' = [NoLast EXCEPT !.op = "ProcessBlock", !.height = block.height]
            /\ view' = NoView
            /\ saved' = NotSaved
            /\ UNCHANGED served
    /\ UNCHANGED <<missed, calls>>

\* State.RollbackTo(height), for a height the history covers
VoteRollback ==
    /\ host < MaxVoteEvents
    /\ \E height \in 0..a.history.height :
         /\ height >= limitHeight(a.history)
         /\ a' = StateRollbackTo(a, height).s
         /\ chain' = UpTo(chain, height)
         /\ regAt' = SubSeq(regAt, 1, Len(UpTo(chain, height)))
         /\ host' = host + 1
         /\ last' = [NoLast EXCEPT !.op = "RollbackTo", !.height = height]
         /\ view' = NoView
         /\ saved' = NotSaved
         /\ UNCHANGED served
    /\ UNCHANGED <<missed, calls>>

NextVotes == VoteBlock \/ VoteRollback

SpecVotes == Init /\ [][NextVotes]_vars

(***************************************************************************)
(* The registry under confirmed blocks and ActivateProducer                *)
(* (TestState_InactiveProducer_Normal, _FailNoContinuous,                  *)
(* _RecoverFromInactiveState).                                             *)
(***************************************************************************)
\* blocks the registry is driven through in this scenario
MaxConfirmHeight == 18

\* ArbitratorsMock.CurrentArbitrators: the node keys of the producers, and
\* one arbitrator that is no producer
MockArbitrators == SetToSortedSeq({NodeKeyOf(o) : o \in Owners} \cup {CRCArbiters[1]})

InitInactive ==
    /\ a = [NewArbitrators EXCEPT !.currentArbitrators = MockArbitrators]
    /\ chain = <<GenesisBlock>>
    /\ regAt = <<NewArbitrators.producers>>
    /\ host = 0
    /\ last = NoLast
    /\ view = NoView
    /\ saved = NotSaved
    /\ served = NewCommittee
    /\ missed = NoneMissed
    /\ calls = NoCalls

\* the confirms a block may come with: a sponsor and the signers of the
\* votes; a producer sponsors without a vote, or signs the one vote, or
\* no producer takes part
Confirms ==
    {c \in [sponsor : Range(MockArbitrators), votes : SUBSET Range(MockArbitrators)] :
        IF c.sponsor = CRCArbiters[1]
        THEN Cardinality(c.votes) <= 1 /\ c.sponsor \notin c.votes
        ELSE c.votes = {}}

ActivateTxs(p) ==
    {[type |-> "activate", owner |-> o, fee |-> TxFee] :
        o \in {x \in Owners : p[x].status = "Inactive" /\ p[x].activateRequestHeight = 0}}
\* a block carries a transaction or a confirm, as in the tests
\* and the producers register before the committee is elected
ConfirmedBlocks(p, height) ==
    {[height |-> height, txs |-> <<tx>>, confirm |-> NilConfirm] :
        tx \in (IF height < CRCOnlyDPOSHeight THEN RegisterTxs(p) ELSE {})
                  \cup ActivateTxs(p)}
    \cup {[height |-> height, txs |-> <<>>, confirm |-> c] :
              c \in (IF height + 1 >= PublicDPOSHeight THEN Confirms ELSE {})
                      \cup {NilConfirm}}

\* the run of misses of producer o after the block: s is the registry after
\* the transactions of the block
MissedAfter(o, s, block) ==
    LET run == IF a.producers[o].status = "Active" THEN missed[o] ELSE 0
    IN IF block.confirm = NilConfirm \/ block.height < PublicDPOSHeight
          \/ s.producers[o].status # "Active"
          \/ s.producers[o].node \notin Range(a.currentArbitrators)
       THEN run
       ELSE IF s.producers[o].node \in block.confirm.votes \cup {block.confirm.sponsor}
       THEN 0
       ELSE run + 1

\* State.ProcessBlock(block, confirm) on the next block
ConfirmedBlock ==
    /\ a.history.height < MaxConfirmHeight
    /\ \E block \in ConfirmedBlocks(a.producers, a.history.height + 1) :
         \E s \in {StateProcessBlock(a, block)} :
            /\ a' = s
            /\ chain' = <<chain[Len(chain)], block>>
            /\ regAt' = <<regAt[Len(regAt)], s.producers>>
            /\ host' = host + Len(block.txs)
            /\ missed' = [o \in Owners |->
                             MissedAfter(o, StateProcessBlock(a, [block EXCEPT
                                                !.confirm = NilConfirm]), block)]
            /\ last' = [NoLast EXCEPT
                           !.op = "ProcessBlock", !.height = block.height,
                           !.requester = IF block.txs # <<>> /\ block.txs[1].type = "activate"
                                         THEN block.txs[1].owner ELSE last.requester,
                           !.requestAt = IF block.txs # <<>> /\ block.txs[1].type = "activate"
                                         THEN block.height ELSE last.requestAt]
            /\ UNCHANGED <<view, saved, served, calls>>

SpecInactive == InitInactive /\ [][ConfirmedBlock]_vars

(***************************************************************************)
(* The engine under special payloads and blocks that carry evidence        *)
(***************************************************************************)
Payloads == [kind : Range(PayloadKinds), owner : Owners]

\* the transaction that carries payload p
EvidenceTx(p) ==
    [type |-> CASE p.kind = "DPOSIllegalBlocks" -> "illegal"
                [] p.kind = "DPOSIllegalProposals" -> "illegalProposal"
                [] OTHER -> "inactiveArbitrators",
     owner |-> p.owner, payload |-> p, fee |-> TxFee]
EvidenceTxs ==
    {<<>>} \cup IF host < MaxEvents THEN {<<EvidenceTx(p)>> : p \in Payloads} ELSE {}

\* the host validates a candidate for the next block
CheckIllegalTx ==
    /\ a.halted = "no"
    /\ last.op # "CheckDPOSIllegalTx"
    /\ \E txs \in EvidenceTxs :
         \E r \in {CheckDPOSIllegalTx(a, [height |-> a.history.height + 1, txs |-> txs])} :
            /\ a' = r.a
            /\ last' = [NoLast EXCEPT !.op = "CheckDPOSIllegalTx",
                                      !.height = a.history.height + 1,
                                      !.err = r.err, !.ret = txs]
    /\ UNCHANGED <<chain, regAt, host, view, saved, served, missed, calls>>

\* the host connects a block that has passed the validation
EvidenceBlock ==
    /\ a.halted = "no"
    /\ a.history.height < MaxHeight
    /\ \E txs \in EvidenceTxs :
         /\ CheckDPOSIllegalTx(a, [height |-> a.history.height + 1, txs |-> txs]).err = "nil"
         /\ ConnectBlock(txs, SomeOrder)
    /\ UNCHANGED <<missed, calls>>

\* a special payload arrives between blocks, once the consensus that issues
\* it is running
SpecialTxPayload ==
    /\ a.halted = "no"
    /\ host < MaxEvents
    /\ a.history.height + 1 >= CRCOnlyDPOSHeight
    /\ \E p \in Payloads, berr \in {"nil", "StorageFailure"} :
         \E r \in {ProcessSpecialTxPayload(a, p, a.history.height,
                        [err |-> berr, block |-> chain[Len(chain)]], SomeOrder)} :
            /\ (r.a.nextArbitrators = a.nextArbitrators /\ r.a.mtx = a.mtx) => berr = "nil"
            /\ a' = r.a
            /\ host' = host + 1
            /\ last' = [NoLast EXCEPT !.op = "ProcessSpecialTxPayload",
                                      !.height = a.history.height,
                                      !.err = r.err, !.settled = r.settled,
                                      !.reward = r.reward,
                                      !.arg = PayloadHash(p), !.accused = p.owner,
                                      !.ret = <<p.kind>>]
            /\ served' = IF r.err = "nil" /\ r.a.dutyIndex = 0 /\ r.a # a
                         THEN [blocks |-> 0, by |-> "ForceChange"] ELSE served
            /\ view' = NoView
            /\ saved' = NotSaved
    /\ UNCHANGED <<chain, regAt, missed, calls>>

NextEvidence == CheckIllegalTx \/ EvidenceBlock \/ SpecialTxPayload

SpecEvidence == Init /\ [][NextEvidence]_vars

(***************************************************************************)
(* The engine under blocks, rollbacks and duty lookups                     *)
(***************************************************************************)
\* largest offset a lookup asks for
MaxOffset == 2
\* highest block the host connects between lookups
MaxDutyHeight == 9
Offsets == 0..MaxOffset

\* bestHeight(): the height of the host's best block
bestHeight == chain[Len(chain)].height

\* the consensus asks who is on duty offset blocks from now
DutyLookup ==
    /\ a.halted = "no"
    /\ last.op # "GetNextOnDutyArbitrator"
    /\ bestHeight + 1 >= CRCOnlyDPOSHeight
    /\ \E offset \in Offsets :
         \E r \in {GetNextOnDutyArbitrator(a, bestHeight, offset)} :
            last' = [NoLast EXCEPT !.op = "GetNextOnDutyArbitrator",
                                   !.height = bestHeight + 1, !.arg = offset,
                                   !.err = r.err, !.ret = <<r.arbiter>>]
    /\ UNCHANGED <<a, chain, regAt, host, view, saved, served, missed, calls>>

\* the host connects the next block
DutyBlock ==
    /\ a.halted = "no"
    /\ a.history.height < MaxDutyHeight
    /\ \E txs \in BlockTxs(a.producers) : ConnectBlock(txs, SomeOrder)
    /\ UNCHANGED <<missed, calls>>

\* the host rolls the engine back
DutyRollback ==
    /\ a.halted = "no"
    /\ host < MaxEvents
    /\ \E height \in 0..(a.history.height + 1) : RollBack(height, SomeOrder, "nil")
    /\ UNCHANGED <<missed, calls>>

NextDuty == DutyBlock \/ DutyRollback \/ DutyLookup

SpecDuty == Init /\ [][NextDuty]_vars

(***************************************************************************)
(* Cross-chain lookups by concurrent callers.  calls[t] is the call that   *)
(* thread t is in: its entry point, its position, the variables i and j of *)
(* the insertion sort that sort.Slice runs on a short slice, and the       *)
(* height it has read.  A slice handed out by GetCRCArbiters is the header *)
(* of a.crcArbiters: it shares its elements with the engine's list.        *)
(***************************************************************************)
Callers == {1, 2}
\* a configuration with three CRC arbiters, as config.CRCArbiters lists them
ThreeCRCArbiters == <<13, 12, 11>>
CrossChainOps == {"GetOnDutyCrossChainArbitrator", "GetCRCArbiters", "GetCrossChainArbiters"}
NoCall == [op |-> "idle", pc |-> "idle", i |-> 0, j |-> 0, height |-> 0, locked |-> FALSE]

\* the engine has just been constructed on a host whose best block is at
\* height h
InitCrossChain ==
    /\ a = [NewArbitrators EXCEPT !.crcArbiters = ThreeCRCArbiters]
    /\ \E h \in (CRCOnlyDPOSHeight - 2)..CRCOnlyDPOSHeight :
          chain = <<[height |-> h, txs |-> <<>>]>>
    /\ regAt = <<NewArbitrators.producers>>
    /\ host = 0
    /\ last = NoLast
    /\ view = NoView
    /\ saved = NotSaved
    /\ served = NewCommittee
    /\ missed = NoneMissed
    /\ calls = [t \in Callers |-> NoCall]

\* data.Swap(x, y) on a list
Swapped(q, x, y) == [q EXCEPT ![x] = q[y], ![y] = q[x]]

\* the cross-chain duty index at the height
ondutyIndex(height, crcArbiters) == (height - CRCOnlyDPOSHeight + 1) % Len(crcArbiters)

\* thread t enters a lookup and reads the best height
Call(t) ==
    /\ calls[t].op = "idle"
    /\ \E op \in CrossChainOps :
          calls' = [calls EXCEPT ![t] = [NoCall EXCEPT !.op = op, !.pc = "start",
                                                       !.height = bestHeight]]
    /\ UNCHANGED <<a, chain, regAt, host, last, view, saved, served, missed>>

\* below CRCOnlyDPOSHeight - 1 the lookups answer from the committee
Legacy(t) ==
    /\ calls[t].pc = "start"
    /\ calls[t].op # "GetCRCArbiters"
    /\ calls[t].height < CRCOnlyDPOSHeight - 1
    /\ ~a.mtx
    /\ last' = [NoLast EXCEPT
                   !.op = calls[t].op, !.height = calls[t].height,
                   !.ret = IF calls[t].op = "GetCrossChainArbiters" THEN GetArbitrators(a)
                           ELSE <<GetOnDutyArbitrator(a, calls[t].height).arbiter>>]
    /\ calls' = [calls EXCEPT ![t] = NoCall]
    /\ UNCHANGED <<a, chain, regAt, host, view, saved, served, missed>>

\* GetCRCArbiters: a.mtx.Lock()
Lock(t) ==
    /\ calls[t].pc = "start"
    /\ calls[t].op = "GetCRCArbiters" \/ calls[t].height >= CRCOnlyDPOSHeight - 1
    /\ ~a.mtx
    /\ a' = [a EXCEPT !.mtx = TRUE]
    /\ calls' = [calls EXCEPT ![t].pc = "locked", ![t].locked = TRUE]
    /\ UNCHANGED <<chain, regAt, host, last, view, saved, served, missed>>

\* GetCRCArbiters: result := a.crcArbiters; a.mtx.Unlock(); return result
Unlock(t) ==
    /\ calls[t].pc = "locked"
    /\ a' = [a EXCEPT !.mtx = FALSE]
    /\ calls' = [calls EXCEPT
                    ![t].locked = FALSE, ![t].i = 1, ![t].j = 1,
                    ![t].pc = IF calls[t].op # "GetOnDutyCrossChainArbitrator" THEN "use"
                              ELSE IF Len(a.crcArbiters) > 1 THEN "less" ELSE "index"]
    /\ UNCHANGED <<chain, regAt, host, last, view, saved, served, missed>>

\* sort.Slice: the test j > 0 && less(j, j-1) of the inner loop
Less(t) ==
    /\ calls[t].pc = "less"
    /\ LET c == calls[t]
       IN calls' = [calls EXCEPT ![t] =
             IF c.j > 0 /\ a.crcArbiters[c.j + 1] < a.crcArbiters[c.j]
             THEN [c EXCEPT !.pc = "swap"]
             ELSE IF c.i + 1 < Len(a.crcArbiters)
             THEN [c EXCEPT !.i = c.i + 1, !.j = c.i + 1]
             ELSE [c EXCEPT !.pc = "index"]]
    /\ UNCHANGED <<a, chain, regAt, host, last, view, saved, served, missed>>

\* sort.Slice: swap(j, j-1); j--
Swap(t) ==
    /\ calls[t].pc = "swap"
    /\ a' = [a EXCEPT !.crcArbiters = Swapped(@, calls[t].j + 1, calls[t].j)]
    /\ calls' = [calls EXCEPT ![t].j = @ - 1, ![t].pc = "less"]
    /\ UNCHANGED <<chain, regAt, host, last, view, saved, served, missed>>

\* arbiter = crcArbiters[ondutyIndex]; return arbiter
Index(t) ==
    /\ calls[t].pc = "index"
    /\ last' = [NoLast EXCEPT
                   !.op = calls[t].op, !.height = calls[t].height,
                   !.ret = <<a.crcArbiters[ondutyIndex(calls[t].height, a.crcArbiters) + 1]>>]
    /\ calls' = [calls EXCEPT ![t] = NoCall]
    /\ UNCHANGED <<a, chain, regAt, host, view, saved, served, missed>>

\* the caller of GetCRCArbiters or GetCrossChainArbiters reads the slice it
\* was handed
Use(t) ==
    /\ calls[t].pc = "use"
    /\ last' = [NoLast EXCEPT !.op = calls[t].op, !.height = calls[t].height,
                              !.ret = a.crcArbiters]
    /\ calls' = [calls EXCEPT ![t] = NoCall]
    /\ UNCHANGED <<a, chain, regAt, host, view, saved, served, missed>>

NextCrossChain ==
    \E t \in Callers :
        Call(t) \/ Legacy(t) \/ Lock(t) \/ Unlock(t) \/ Less(t) \/ Swap(t) \/ Index(t) \/ Use(t)

SpecCrossChain == InitCrossChain /\ [][NextCrossChain]_vars

(***************************************************************************)
(* A duty lookup that runs beside ProcessBlock and RollbackTo.             *)
(* calls.change is the operation the host is in: a is the engine as it was *)
(* when the operation began, calls.change.visible what the memory holds of *)
(* the committee while the operation is inside changeCurrentArbitrators or *)
(* DecreaseChainHeight, calls.change.mtx whether the mutex is held then.   *)
(* calls.query is the lookup: GetNextOnDutyArbitratorV reads               *)
(* a.currentArbitrators and then a.dutyIndex and takes no mutex.           *)
(* calls.moments collects what the committee was before and after the      *)
(* operations the lookup has run beside, calls.change.after is what it     *)
(* will be when the operation in progress has returned.                    *)
(***************************************************************************)
\* highest block the host connects beside a lookup
MaxRaceHeight == 7

Moment(x) == [arbitrators |-> x.currentArbitrators, dutyIndex |-> x.dutyIndex]
NoChange == [pc |-> "idle", op |-> "", txs |-> <<>>, height |-> 0, mtx |-> FALSE,
             visible |-> <<>>, after |-> <<>>]
NoQuery == [pc |-> "idle", arbitrators |-> <<>>, height |-> 0]

InitRace ==
    /\ a = NewArbitrators
    /\ chain = <<GenesisBlock>>
    /\ regAt = <<NewArbitrators.producers>>
    /\ host = 0
    /\ last = NoLast
    /\ view = NoView
    /\ saved = NotSaved
    /\ served = NewCommittee
    /\ missed = NoneMissed
    /\ calls = [query |-> NoQuery, change |-> NoChange, moments |-> {}]

\* what a read of the committee finds in memory
Memory == IF calls.change.pc = "idle" THEN Moment(a) ELSE calls.change.visible

\* ProcessBlock is inside changeCurrentArbitrators, or about to write
\* dutyIndex: the list is written (line 628), dutyIndex is not (line 637)
BeginBlock ==
    /\ a.halted = "no"
    /\ a.history.height < MaxRaceHeight
    /\ calls.change.pc = "idle"
    /\ \E txs \in BlockTxs(a.producers) :
         \E r \in {ProcessBlockResult(a, [height |-> a.history.height + 1, txs |-> txs],
                                      SomeOrder)} :
            calls' = [calls EXCEPT !.change =
                        [pc |-> "changing", op |-> "ProcessBlock", txs |-> txs,
                         height |-> a.history.height + 1, mtx |-> TRUE,
                         visible |-> [arbitrators |-> r.a.currentArbitrators,
                                      dutyIndex |-> a.dutyIndex],
                         after |-> Moment(r.a)]]
    /\ UNCHANGED <<a, chain, regAt, host, last, view, saved, served, missed>>

\* the operations a lookup has run beside, with the one that ends now
momentsWith(x) == IF calls.query.pc = "list" THEN calls.moments \cup {Moment(x)}
                  ELSE calls.moments

\* ProcessBlock returns
EndBlock ==
    /\ calls.change.pc = "changing" /\ calls.change.op = "ProcessBlock"
    /\ ConnectBlock(calls.change.txs, SomeOrder)
    /\ calls' = [calls EXCEPT !.change = NoChange, !.moments = momentsWith(a')]
    /\ UNCHANGED missed

\* what DecreaseChainHeight has written when it is about to assign
\* dutyIndex (lines 384, 386): r is what RollbackTo returns in the end
beforeDutyIndex(r) ==
    IF r.forced /\ r.err = "nil"
    THEN [arbitrators |-> r.a.currentArbitrators, dutyIndex |-> 0]
    ELSE Moment(a)

\* RollbackTo is inside DecreaseChainHeight, ForceChange has released the
\* mutex if it was called
BeginRollback ==
    /\ a.halted = "no"
    /\ host < MaxEvents
    /\ calls.change.pc = "idle"
    /\ \E height \in 0..(a.history.height + 1) :
         /\ height + 1 >= CRCOnlyDPOSHeight
         /\ height + 1 >= limitHeight(a.history)
         /\ LET kept == UpTo(chain, height)
                best == [err |-> "nil",
                         block |-> IF kept = <<>> THEN GenesisBlock ELSE kept[Len(kept)]]
            IN \E r \in {RollbackToResult(a, height, best, SomeOrder)} :
                  calls' = [calls EXCEPT !.change =
                              [pc |-> "changing", op |-> "RollbackTo", txs |-> <<>>,
                               height |-> height, mtx |-> FALSE,
                               visible |-> beforeDutyIndex(r), after |-> Moment(r.a)]]
    /\ UNCHANGED <<a, chain, regAt, host, last, view, saved, served, missed>>

\* RollbackTo returns
EndRollback ==
    /\ calls.change.pc = "changing" /\ calls.change.op = "RollbackTo"
    /\ RollBack(calls.change.height, SomeOrder, "nil")
    /\ calls' = [calls EXCEPT !.change = NoChange, !.moments = momentsWith(a')]
    /\ UNCHANGED missed

\* GetOnDutyArbitrator: arbitrators := a.currentArbitrators
QueryList ==
    /\ a.halted = "no"
    /\ calls.query.pc = "idle"
    /\ bestHeight + 1 >= CRCOnlyDPOSHeight
    /\ calls' = [calls EXCEPT !.query = [pc |-> "list", arbitrators |-> Memory.arbitrators,
                                         height |-> bestHeight + 1],
                              !.moments = {Moment(a)}]
    /\ UNCHANGED <<a, chain, regAt, host, last, view, saved, served, missed>>

\* GetOnDutyArbitrator: index := (a.dutyIndex + 0) % len(arbitrators) and the
\* return; last.arg is the dutyIndex that was read
QueryIndex ==
    /\ calls.query.pc = "list"
    /\ \E r \in {GetNextOnDutyArbitratorV(
                    [currentArbitrators |-> calls.query.arbitrators,
                     dutyIndex |-> Memory.dutyIndex], calls.query.height, 0)} :
          last' = [NoLast EXCEPT !.op = "GetOnDutyArbitrator", !.height = calls.query.height,
                                 !.arg = Memory.dutyIndex, !.err = r.err,
                                 !.ret = <<r.arbiter>>]
    /\ calls' = [calls EXCEPT !.query = NoQuery, !.moments = {}]
    /\ UNCHANGED <<a, chain, regAt, host, view, saved, served, missed>>

NextRace ==
    BeginBlock \/ EndBlock \/ BeginRollback \/ EndRollback \/ QueryList \/ QueryIndex

SpecRace == InitRace /\ [][NextRace]_vars

(***************************************************************************)
(* Event emission.  calls is the set of ETDirectPeersChanged notifications *)
(* whose listeners have not returned yet: which operation issued each one, *)
(* the thread events.Notify runs on, whether the mutex was held when the   *)
(* peers were collected, and the peers.                                    *)
(***************************************************************************)
\* highest block the host connects while notifications are followed
MaxNotifyHeight == 6

GetNeedConnectArbiters(x) ==
    IF x.history.height + 1 < CRCOnlyDPOSHeight - PreConnectOffset THEN {}
    ELSE Range(x.crcArbiters) \cup Range(x.currentArbitrators) \cup Range(x.nextArbitrators)

InitNotify ==
    /\ a = NewArbitrators
    /\ chain = <<GenesisBlock>>
    /\ regAt = <<NewArbitrators.producers>>
    /\ host = 0
    /\ last = NoLast
    /\ view = NoView
    /\ saved = NotSaved
    /\ served = NewCommittee
    /\ missed = NoneMissed
    /\ calls = {}

\* arbitrators.Start
Start ==
    /\ ~a.started
    /\ a' = [a EXCEPT !.started = TRUE]
    /\ UNCHANGED <<chain, regAt, host, last, view, saved, served, missed, calls>>

\* events.Notify called in the calling thread returns when the listeners have
\* returned: the host is inside IncreaseChainHeight until then
hostInNotify == \E e \in calls : e.thread = "host"

\* ProcessBlock with the end of IncreaseChainHeight (lines 268-272): the
\* mutex is released, then events.Notify is called without a go statement
NotifyBlock ==
    /\ a.halted = "no"
    /\ a.history.height < MaxNotifyHeight
    /\ ~hostInNotify
    /\ \E txs \in BlockTxs(a.producers) : ConnectBlock(txs, SomeOrder)
    /\ calls' = IF a'.started /\ last'.changeType \in {updateNext, normalChange}
                THEN calls \cup {[by |-> "IncreaseChainHeight", height |-> last'.height,
                                  thread |-> "host", mtx |-> a'.mtx,
                                  peers |-> GetNeedConnectArbiters(a')]}
                ELSE calls
    /\ UNCHANGED missed

\* RollbackTo with the end of ForceChange (lines 205-210): the mutex is
\* released, the peers are collected, then go events.Notify
NotifyRollback ==
    /\ a.halted = "no"
    /\ host < MaxEvents
    /\ ~hostInNotify
    /\ \E height \in 0..(a.history.height + 1) : RollBack(height, SomeOrder, "nil")
    /\ calls' = IF a'.started /\ last'.forced /\ last'.err = "nil"
                THEN calls \cup {[by |-> "ForceChange", height |-> last'.height,
                                  thread |-> "background", mtx |-> a'.mtx,
                                  peers |-> GetNeedConnectArbiters(a')]}
                ELSE calls
    /\ UNCHANGED missed

\* a listener calls GetArbitrators, which takes the mutex, and returns
Listen ==
    /\ ~a.mtx
    /\ \E e \in calls :
          /\ last' = [NoLast EXCEPT !.op = "Listener", !.height = e.height,
                                    !.ret = GetArbitrators(a)]
          /\ calls' = calls \ {e}
    /\ UNCHANGED <<a, chain, regAt, host, view, saved, served, missed>>

NextNotify == Start \/ NotifyBlock \/ NotifyRollback \/ Listen

SpecNotify == InitNotify /\ [][NextNotify]_vars

(***************************************************************************)
(* The view-change countdown.  calls is the ViewChangesCountDown with, in  *)
(* eliminations, the number of SetEliminated calls since it was made or    *)
(* last reset.  The height is the host's best height, the view offset what *)
(* the consensus reports when IsTimeOut is asked.                          *)
(***************************************************************************)
firstTimeoutFactor == 1
othersTimeoutFactor == 240

\* SetEliminated calls followed between two resets
MaxEliminations == 3
\* highest block the host connects beside the countdown
MaxCountDownHeight == 9

\* the zero value of the struct.  timeoutRefactor is a uint32; with at most
\* MaxEliminations calls between two resets it stays below 2^10, and its
\* product with the committee size below 2^12.
NewViewChangesCountDown ==
    [timeoutRefactor |-> 0, inactiveArbitratorsEliminated |-> FALSE, eliminations |-> 0]

Reset(c) ==
    [c EXCEPT !.inactiveArbitratorsEliminated = FALSE, !.timeoutRefactor = 0,
              !.eliminations = 0]

SetEliminatedFirstFactorOnly(c) ==
    [c EXCEPT !.inactiveArbitratorsEliminated = TRUE,
              !.timeoutRefactor = @ + firstTimeoutFactor,
              !.eliminations = @ + 1]
SetEliminated(c) ==
    [c EXCEPT !.inactiveArbitratorsEliminated = TRUE,
              !.timeoutRefactor = IF @ = 0 THEN @ + firstTimeoutFactor
                                  ELSE @ + othersTimeoutFactor,
              !.eliminations = @ + 1]

IsTimeOutAnyFactor(c, currentHeight, viewOffset, count) ==
    IF currentHeight <= PublicDPOSHeight THEN FALSE
    ELSE viewOffset >= count * c.timeoutRefactor
IsTimeOut(c, currentHeight, viewOffset, count) ==
    IF currentHeight <= PublicDPOSHeight \/ c.timeoutRefactor = 0 THEN FALSE
    ELSE viewOffset >= count * c.timeoutRefactor

\* the view offsets the consensus may report: around count * factor for the
\* committees of two and three and the first two factors
ViewOffsets ==
    {0} \cup {n * f - d : n \in 2..3,
                          f \in {firstTimeoutFactor, firstTimeoutFactor + othersTimeoutFactor},
                          d \in 0..1}

InitCountDown ==
    /\ a = NewArbitrators
    /\ chain = <<GenesisBlock>>
    /\ regAt = <<NewArbitrators.producers>>
    /\ host = 0
    /\ last = NoLast
    /\ view = NoView
    /\ saved = NotSaved
    /\ served = NewCommittee
    /\ missed = NoneMissed
    /\ calls = NewViewChangesCountDown

CountDownBlock ==
    /\ a.halted = "no"
    /\ a.history.height < MaxCountDownHeight
    /\ \E txs \in BlockTxs(a.producers) : ConnectBlock(txs, SomeOrder)
    /\ UNCHANGED <<missed, calls>>

ResetCountDown ==
    /\ calls' = Reset(calls)
    /\ last' = [NoLast EXCEPT !.op = "Reset"]
    /\ UNCHANGED <<a, chain, regAt, host, view, saved, served, missed>>

EliminateInactive ==
    /\ calls.eliminations < MaxEliminations
    /\ calls' = SetEliminated(calls)
    /\ last' = [NoLast EXCEPT !.op = "SetEliminated"]
    /\ UNCHANGED <<a, chain, regAt, host, view, saved, served, missed>>

\* last.arg is the view offset, last.height the current height, last.ret the answer
AskTimeOut ==
    /\ \E viewOffset \in ViewOffsets :
          last' = [NoLast EXCEPT !.op = "IsTimeOut", !.height = bestHeight,
                                 !.arg = viewOffset,
                                 !.ret = IsTimeOut(calls, bestHeight, viewOffset,
                                                   GetArbitersCount(a))]
    /\ UNCHANGED <<a, chain, regAt, host, view, saved, served, missed, calls>>

NextCountDown == CountDownBlock \/ ResetCountDown \/ EliminateInactive \/ AskTimeOut

SpecCountDown == InitCountDown /\ [][NextCountDown]_vars

(***************************************************************************)
(* The payout of one round on its own.  The committee in office is the CRC *)
(* arbiters with producer 1 elected and, when it has votes, producer 2 as  *)
(* candidate; the votes of the round and the pending reward are drawn from *)
(* bounded sets.                                                           *)
(***************************************************************************)
\* votes of the elected producer in the round
MaxRoundVotes == 11
\* votes of the candidate in the round
MaxCandidateVotes == 1
\* pending reward at the settlement
MaxRoundReward == 20

votedProducer(o, votes) ==
    [NoProducer EXCEPT !.status = "Active", !.node = NodeKeyOf(o), !.nick = o,
                       !.votes = votes, !.registerHeight = 1]

\* the engine in the round of this committee, at PublicDPOSHeight + 1
roundOf(v1, v2, reward) ==
    LET keys == SortKeys(CRCArbiters \o <<NodeKeyOf(1)>>)
        candidates == IF v2 > 0 THEN <<NodeKeyOf(2)>> ELSE <<>>
        p == [o \in Owners |-> IF o = 1 THEN votedProducer(1, v1)
                               ELSE IF o = 2 /\ v2 > 0 THEN votedProducer(2, v2)
                               ELSE NoProducer]
    IN [NewArbitrators EXCEPT
           !.producers = p,
           !.nicknames = {o \in Owners : p[o].status = "Active"},
           !.history = [height |-> PublicDPOSHeight + 1, changes |-> <<>>, temp |-> <<>>],
           !.currentArbitrators = keys,
           !.nextArbitrators = keys,
           !.currentCandidates = candidates,
           !.nextCandidates = candidates,
           !.currentOwnerProgramHashes = OwnerHashes(p, keys),
           !.nextOwnerProgramHashes = OwnerHashes(p, keys),
           !.candidateOwnerProgramHashes = OwnerHashes(p, candidates),
           !.nextCandidateOwnerProgramHashes = OwnerHashes(p, candidates),
           !.ownerVotesInRound =
               [h \in {PublicKeyToStandardProgramHash(o) : o \in {x \in Owners : p[x].votes > 0}}
                   |-> p[CHOOSE o \in Owners : PublicKeyToStandardProgramHash(o) = h].votes],
           !.totalVotesInRound = v1 + v2,
           !.accumulativeReward = reward]

InitPayout ==
    /\ \E v1 \in 1..MaxRoundVotes, v2 \in 0..MaxCandidateVotes, reward \in 0..MaxRoundReward :
          a = roundOf(v1, v2, reward)
    /\ chain = <<[height |-> PublicDPOSHeight + 1, txs |-> <<>>]>>
    /\ regAt = <<a.producers>>
    /\ host = 0
    /\ last = NoLast
    /\ view = NoView
    /\ saved = NotSaved
    /\ served = NewCommittee
    /\ missed = NoneMissed
    /\ calls = NoCalls

\* distributeDPOSReward on the pending reward
Distribute ==
    /\ last.op = "New"
    /\ \E r \in {distributeDPOSReward(a, a.accumulativeReward)} :
          /\ a' = r.a
          /\ last' = [NoLast EXCEPT !.op = "distributeDPOSReward",
                                    !.reward = a.accumulativeReward,
                                    !.settled = TRUE, !.err = r.err]
    /\ UNCHANGED <<chain, regAt, host, view, saved, served, missed, calls>>

SpecPayout == InitPayout /\ [][Distribute]_vars

(***************************************************************************)
(* Special payloads and block validation with the notifications followed   *)
(***************************************************************************)
\* highest block the host connects while forced changes are followed
MaxForcedHeight == 8

\* ProcessSpecialTxPayload reaches its call of ForceChange (line 135)
callsForceChange(x, p) ==
    \/ p.kind = "DPOSIllegalBlocks"
    \/ p.kind = "InactiveArbitrators" /\ AddInactivePayload(x, p).ok

\* a special payload arrives between blocks, from the height on at which
\* rewards are settled; a ForceChange that returns nil has released the mutex
\* and issued go events.Notify (lines 205-210)
ForcedPayload ==
    /\ a.halted = "no"
    /\ host < MaxEvents
    /\ ~hostInNotify
    /\ a.history.height + 1 >= PublicDPOSHeight
    /\ \E p \in Payloads, berr \in {"nil", "StorageFailure"} :
         \E r \in {ProcessSpecialTxPayload(a, p, a.history.height,
                        [err |-> berr, block |-> chain[Len(chain)]], SomeOrder)} :
            /\ ~callsForceChange(a, p) => berr = "nil"
            /\ a' = r.a
            /\ host' = host + 1
            /\ last' = [NoLast EXCEPT !.op = "ProcessSpecialTxPayload",
                                      !.height = a.history.height,
                                      !.err = r.err, !.settled = r.settled,
                                      !.reward = r.reward,
                                      !.forced = callsForceChange(a, p),
                                      !.arg = PayloadHash(p), !.accused = p.owner,
                                      !.ret = <<p.kind>>]
            /\ calls' = IF r.a.started /\ callsForceChange(a, p) /\ r.err = "nil"
                        THEN calls \cup {[by |-> "ForceChange", height |-> a.history.height,
                                          thread |-> "background", mtx |-> r.a.mtx,
                                          peers |-> GetNeedConnectArbiters(r.a)]}
                        ELSE calls
            /\ view' = NoView
            /\ saved' = NotSaved
    /\ UNCHANGED <<chain, regAt, served, missed>>

\* the host connects a block that has passed the validation
ForcedBlock ==
    /\ a.halted = "no"
    /\ a.history.height < MaxForcedHeight
    /\ ~hostInNotify
    /\ \E txs \in EvidenceTxs :
         /\ CheckDPOSIllegalTx(a, [height |-> a.history.height + 1, txs |-> txs]).err = "nil"
         /\ ConnectBlock(txs, SomeOrder)
    /\ calls' = IF a'.started /\ last'.changeType \in {updateNext, normalChange}
                THEN calls \cup {[by |-> "IncreaseChainHeight", height |-> last'.height,
                                  thread |-> "host", mtx |-> a'.mtx,
                                  peers |-> GetNeedConnectArbiters(a')]}
                ELSE calls
    /\ UNCHANGED missed

NextForced == Start \/ ForcedPayload \/ CheckIllegalTx \/ ForcedBlock \/ Listen

SpecForced == InitNotify /\ [][NextForced]_vars

(***************************************************************************)
(* HasArbitersMinorityCount beside committee changes.  The query takes the *)
(* mutex twice: once to read len(a.currentArbitrators), once inside        *)
(* GetArbitersMajorityCount; a ProcessBlock or a RollbackTo of the host    *)
(* can run between the two.  calls is the query: the number asked about,   *)
(* the count it has read, and the sizes the committee has had since the    *)
(* query began.                                                            *)
(***************************************************************************)
\* highest block the host connects beside the query
MaxMinorityHeight == 8
\* largest number of signers the consensus asks about
MaxNum == 2

NoMinorityCall == [pc |-> "idle", num |-> 0, count |-> 0, sizes |-> {}]

InitMinority ==
    /\ a = NewArbitrators
    /\ chain = <<GenesisBlock>>
    /\ regAt = <<NewArbitrators.producers>>
    /\ host = 0
    /\ last = NoLast
    /\ view = NoView
    /\ saved = NotSaved
    /\ served = NewCommittee
    /\ missed = NoneMissed
    /\ calls = NoMinorityCall

\* the sizes seen by a query in progress, with the committee x
sizesWith(x) == IF calls.pc = "counted"
                THEN [calls EXCEPT !.sizes = @ \cup {Len(x.currentArbitrators)}]
                ELSE calls

\* HasArbitersMinorityCount: a.mtx.Lock(); count := len(a.currentArbitrators);
\* a.mtx.Unlock()
MinorityCount ==
    /\ a.halted = "no"
    /\ ~a.mtx
    /\ calls.pc = "idle"
    /\ bestHeight + 1 >= CRCOnlyDPOSHeight
    /\ \E num \in 0..MaxNum :
         calls' = [pc |-> "counted", num |-> num, count |-> Len(a.currentArbitrators),
                   sizes |-> {Len(a.currentArbitrators)}]
    /\ UNCHANGED <<a, chain, regAt, host, last, view, saved, served, missed>>

\* HasArbitersMinorityCount: return num >= count-a.GetArbitersMajorityCount()
MinorityReturn ==
    /\ calls.pc = "counted"
    /\ ~a.mtx
    /\ last' = [NoLast EXCEPT !.op = "HasArbitersMinorityCount",
                              !.height = a.history.height, !.arg = calls.num,
                              !.ret = <<calls.num >= calls.count - GetArbitersMajorityCount(a)>>]
    /\ calls' = [calls EXCEPT !.pc = "idle"]
    /\ UNCHANGED <<a, chain, regAt, host, view, saved, served, missed>>

\* the host connects a block, before the query or between its two sections
MinorityBlock ==
    /\ a.halted = "no"
    /\ a.history.height < MaxMinorityHeight
    /\ \E txs \in BlockTxs(a.producers) : ConnectBlock(txs, SomeOrder)
    /\ calls' = sizesWith(a')
    /\ UNCHANGED missed

\* the host rolls the chain back, before the query or between its two
\* sections
MinorityRollback ==
    /\ a.halted = "no"
    /\ host < MaxEvents
    /\ \E height \in 0..(a.history.height + 1) : RollBack(height, SomeOrder, "nil")
    /\ calls' = sizesWith(a')
    /\ UNCHANGED missed

NextMinority == MinorityCount \/ MinorityReturn \/ MinorityBlock \/ MinorityRollback

SpecMinority == InitMinority /\ [][NextMinority]_vars

(***************************************************************************)
(* ConsensusBlockCache (dpos/manager/consensusblockcache.go).  calls is    *)
(* the cache, Listener telling that a listener is set; its owner has Reset *)
(* it before the first call that is followed here.  view is what the       *)
(* listener has been given by OnBlockAdded, saved the Reset and AddValue   *)
(* calls made since, last the latest call and what it returned.            *)
(***************************************************************************)
\* calls the consensus makes on one cache
MaxCacheCalls == 5
\* block hashes and blocks
CacheKeys == {1, 2}
CacheBlocks == {101, 102}
\* common.Uint256{}
ZeroHash == 0
\* a nil *types.Block
NilBlock == 0

CacheReset(c) == [c EXCEPT !.ConsensusBlocks = NilMap, !.ConsensusBlockList = <<>>]

\* the cache once Reset has made its map and its list
NewCache(listener) ==
    CacheReset([ConsensusBlocks |-> NilMap, ConsensusBlockList |-> <<>>,
                Listener |-> listener])

\* [c, notified]: notified is what OnBlockAdded is called with
AddValuePrepended(c, key, value) ==
    [c |-> [c EXCEPT !.ConsensusBlocks = MapPut(@, key, value),
                     !.ConsensusBlockList = <<key>> \o @],
     notified |-> IF c.Listener THEN <<value>> ELSE <<>>]
AddValue(c, key, value) ==
    [c |-> [c EXCEPT !.ConsensusBlocks = MapPut(@, key, value),
                     !.ConsensusBlockList = Append(@, key)],
     notified |-> IF c.Listener THEN <<value>> ELSE <<>>]

\* <<value, ok>>
TryGetValue(c, key) ==
    IF key \in DOMAIN c.ConsensusBlocks THEN <<c.ConsensusBlocks[key], TRUE>>
    ELSE <<NilBlock, FALSE>>

GetFirstArrivedBlockHash(c) ==
    IF Len(c.ConsensusBlockList) = 0 THEN <<ZeroHash, FALSE>>
    ELSE <<c.ConsensusBlockList[1], TRUE>>

InitCache ==
    /\ a = NewArbitrators
    /\ chain = <<GenesisBlock>>
    /\ regAt = <<NewArbitrators.producers>>
    /\ host = 0
    /\ last = NoLast
    /\ view = <<>>
    /\ saved = <<>>
    /\ served = NewCommittee
    /\ missed = NoneMissed
    /\ \E listener \in BOOLEAN : calls = NewCache(listener)

\* c.Reset()
ResetCache ==
    /\ host < MaxCacheCalls
    /\ calls' = CacheReset(calls)
    /\ host' = host + 1
    /\ saved' = Append(saved, [op |-> "Reset", key |-> ZeroHash, value |-> NilBlock])
    /\ last' = [NoLast EXCEPT !.op = "Reset"]
    /\ UNCHANGED <<a, chain, regAt, view, served, missed>>

\* c.AddValue(key, value), the listener's OnBlockAdded included
AddBlock ==
    /\ host < MaxCacheCalls
    /\ \E key \in CacheKeys, value \in CacheBlocks :
         \E r \in {AddValue(calls, key, value)} :
            /\ calls' = r.c
            /\ view' = view \o r.notified
            /\ saved' = Append(saved, [op |-> "AddValue", key |-> key, value |-> value])
            /\ last' = [NoLast EXCEPT !.op = "AddValue", !.arg = key]
    /\ host' = host + 1
    /\ UNCHANGED <<a, chain, regAt, served, missed>>

\* c.TryGetValue(key)
LookUp ==
    \E key \in CacheKeys :
       /\ last' = [NoLast EXCEPT !.op = "TryGetValue", !.arg = key,
                                 !.ret = TryGetValue(calls, key)]
       /\ UNCHANGED <<a, chain, regAt, host, view, saved, served, missed, calls>>

\* c.GetFirstArrivedBlockHash()
FirstArrived ==
    /\ last' = [NoLast EXCEPT !.op = "GetFirstArrivedBlockHash",
                              !.ret = GetFirstArrivedBlockHash(calls)]
    /\ UNCHANGED <<a, chain, regAt, host, view, saved, served, missed, calls>>

NextCache == ResetCache \/ AddBlock \/ LookUp \/ FirstArrived

SpecCache == InitCache /\ [][NextCache]_vars

(***************************************************************************)
(* Properties                                                              *)
(***************************************************************************)
\* the step is a ProcessBlock call that returned
Processed == last'.op = "ProcessBlock" /\ vars' # vars /\ a'.halted = "no"

\* C1: at every settlement a normalChange triggers, the payouts of
\* arbitersRoundReward and finalRoundChange add up to the reward that was
\* pending, and none of them is negative, whatever totalVotesInRound is.
RewardConservation ==
    (last.op = "ProcessBlock" /\ last.changeType = normalChange /\ last.settled
        /\ a.halted = "no")
    => /\ MapSum(a.arbitersRoundReward) + a.finalRoundChange = last.reward
       /\ \A i \in DOMAIN a.arbitersRoundReward : a.arbitersRoundReward[i] >= 0
       /\ a.finalRoundChange >= 0

\* C2: RollbackTo(H-k) followed by the same last k blocks gives back every
\* engine field as it was at height H.
RollbackSymmetry ==
    (saved.on /\ saved.todo = <<>> /\ a.halted = "no") => EngineFields(a) = saved.orig

\* the results of the queries
Queries(x) ==
    <<GetArbitrators(x), GetCandidates(x), GetNextArbitrators(x), GetNextCandidates(x),
      GetDutyIndex(x), GetArbitersRoundReward(x), GetFinalRoundChange(x)>>

\* C3: an engine that processes a block answers every query as any other
\* engine does that was in the same state and processes the same block,
\* whatever the order of the CRC map iteration and of equal votes.
Determinism ==
    [][Processed =>
         Queries(a') = Queries(ProcessBlockResult(a, chain'[Len(chain')], SomeOrder).a)]_vars

\* C4: for every committee size n in 1..256 the majority count is
\* floor(2n/3), k is a majority exactly when k > floor(2n/3) and a minority
\* exactly when k >= n - floor(2n/3).
MajorityArithmetic ==
    last.op = "Majority" =>
        LET n == Len(a.currentArbitrators)
            k == last.arg
        IN /\ last.ret[1] = (2 * n) \div 3
           /\ last.ret[2] = (k > (2 * n) \div 3)
           /\ last.ret[3] = (k >= n - (2 * n) \div 3)

MajorityArithmeticWitness ==
    /\ last.op = "Majority"
    /\ Len(a.currentArbitrators) = MaxCommittee
    /\ last.arg = 171
    /\ last.ret = <<170, TRUE, TRUE>>

\* C5: a processed block of change type none raises dutyIndex by exactly one
\* and leaves currentArbitrators and currentCandidates alone; right after a
\* normalChange dutyIndex is 0.
DutyMonotonicity ==
    [][Processed =>
         /\ last'.changeType = none =>
               /\ a'.dutyIndex = a.dutyIndex + 1
               /\ a'.currentArbitrators = a.currentArbitrators
               /\ a'.currentCandidates = a.currentCandidates
         /\ last'.changeType = normalChange => a'.dutyIndex = 0]_vars

DutyMonotonicityWitness ==
    /\ last.op = "ProcessBlock"
    /\ last.changeType = none
    /\ last.height > PublicDPOSHeight
    /\ served.by = normalChange
    /\ a.dutyIndex = 2
    /\ Len(a.currentArbitrators) = 3

\* the change the rotation schedule asks for when the block of height h is
\* processed by an engine with the given duty index and committee size
Scheduled(h, dutyIndex, size) ==
    IF h + 1 = CRCOnlyDPOSHeight - PreConnectOffset THEN <<updateNext, CRCOnlyDPOSHeight>>
    ELSE IF h + 1 = CRCOnlyDPOSHeight THEN <<normalChange, CRCOnlyDPOSHeight>>
    ELSE IF h + 1 = PublicDPOSHeight - PreConnectOffset THEN <<updateNext, PublicDPOSHeight>>
    ELSE IF h + 1 = PublicDPOSHeight THEN <<normalChange, PublicDPOSHeight>>
    ELSE IF h + 1 > PublicDPOSHeight /\ dutyIndex = size - 1 THEN <<normalChange, h + 1>>
    ELSE <<none, h + 1>>

\* C6: the block of height h gets the change the schedule lists first for
\* h+1, and above H2 the committee is replaced by exactly the n-th block
\* processed since it took office, n being its size.
RotationSchedule ==
    [][Processed =>
         LET h == last'.height
             n == Len(a.currentArbitrators)
         IN /\ <<last'.changeType, last'.version>> = Scheduled(h, a.dutyIndex, n)
            /\ last'.changeType = none <=> a'.dutyIndex = a.dutyIndex + 1
            /\ last'.changeType = normalChange =>
                  /\ a'.dutyIndex = 0
                  /\ a'.currentArbitrators = SortKeys(a.nextArbitrators)
            /\ last'.changeType = updateNext =>
                  /\ a'.dutyIndex = a.dutyIndex
                  /\ a'.currentArbitrators = a.currentArbitrators
            /\ h + 1 > PublicDPOSHeight =>
                  (last'.changeType = normalChange <=> served.blocks + 1 = n)]_vars

\* the registry as it was after the block of height h, a retained height
RegistryAt(h) == regAt[CHOOSE i \in DOMAIN chain : chain[i].height = h]

\* C7: State.RollbackTo(h) within the retained history leaves the registry
\* as it was right after block h: same producers, each with the same status,
\* node key, nickname and votes.
RegistryRollback ==
    [][(last'.op = "RollbackTo" /\ vars' # vars /\ last'.err = "nil") =>
          a'.producers = RegistryAt(last'.height)]_vars

\* a producer activated above h is Pending again, one registered above h is gone
RegistryRollbackWitness ==
    /\ last.op = "RollbackTo"
    /\ last.err = "nil"
    /\ saved.on
    /\ \E o \in Owners : /\ saved.orig.producers[o].status = "Active"
                         /\ a.producers[o].status = "Pending"
    /\ \E o \in Owners : /\ saved.orig.producers[o].status = "Pending"
                         /\ a.producers[o].status = "None"

HistoryHorizon ==
    [][(last'.op \in {"GetHistory", "RollbackTo"} /\ vars' # vars) =>
          LET lim == a.history.height - Len(a.history.changes)
          IN /\ last'.err = "overflow" <=> last'.height < lim
             /\ last'.err = "overflow" => a' = a /\ last'.limit = lim]_vars

HistoryHorizonWitness ==
    /\ last.op = "RollbackTo"
    /\ last.err = "overflow"
    /\ last.limit = a.history.height - maxHistoryCapacity
    /\ last.height = last.limit - 1

\* C10: a producer registered by block r is Pending after the blocks r..r+4
\* and Active from block r+5 on; ten producers registered one per block at
\* heights 1..10 give 5 Pending, 5 Active and 10 in all at height 10.
PendingToActive ==
    /\ \A o \in DOMAIN a.producers :
          a.producers[o].status # "None" =>
             /\ a.history.height <= o + 4 => a.producers[o].status = "Pending"
             /\ a.history.height >= o + 5 => a.producers[o].status = "Active"
    /\ (a.history.height = TestProducers
           /\ \A o \in DOMAIN a.producers : a.producers[o].status # "None") =>
          /\ Cardinality(GetPendingProducers(a.producers)) = 5
          /\ Cardinality(GetActiveProducers(a.producers)) = 5
          /\ Cardinality(GetProducers(a.producers)) = 10

PendingToActiveWitness ==
    /\ a.history.height = TestProducers
    /\ \A o \in DOMAIN a.producers : a.producers[o].status # "None"
    /\ a.producers[5].status = "Active"
    /\ a.producers[6].status = "Pending"

\* C11: no two producers that hold their nickname (status not Canceled,
\* Illegal or Returned) share one; NicknameExists(n) is true exactly when
\* such a producer holds n; and the nickname a producer had before an
\* UpdateProducer changed it, before its CancelProducer or before illegal
\* evidence made it Illegal no longer exists and is open to registration.
NicknameUniqueness ==
    /\ \A o1, o2 \in DOMAIN a.producers :
          (o1 # o2 /\ HoldsNickname(a.producers, o1) /\ HoldsNickname(a.producers, o2))
              => a.producers[o1].nick # a.producers[o2].nick
    /\ \A n \in Nicks :
          NicknameExists(a, n)
              <=> \E o \in DOMAIN a.producers :
                     HoldsNickname(a.producers, o) /\ a.producers[o].nick = n
    /\ (last.op \in {"ProcessBlock", "SpecialPayload"} /\ last.released # 0)
          => /\ ~NicknameExists(a, last.released)
             /\ \A o \in Owners :
                   a.producers[o].status = "None"
                       => [type |-> "register", owner |-> o, nick |-> last.released,
                           fee |-> TxFee] \in NickRegisterTxs(a)

\* a nickname its first holder lost is held by a producer registered later
NicknameUniquenessWitness ==
    \E o1, o2 \in DOMAIN a.producers :
        /\ a.producers[o1].status \in {"Canceled", "Illegal"}
        /\ HoldsNickname(a.producers, o2)
        /\ a.producers[o2].nick = a.producers[o1].nick
        /\ a.producers[o2].registerHeight > a.producers[o1].registerHeight

\* the transaction of the latest block, and the registry before that block
LatestTx == chain[Len(chain)].txs[1]
Before == regAt[Len(regAt) - 1]
VoteStep(type) ==
    last.op = "ProcessBlock" /\ chain[Len(chain)].txs # <<>> /\ LatestTx.type = type

Tallied(p, o) == p[o].status \in {"Pending", "Active", "Inactive"}

Untouched(o) ==
    chain[Len(chain)].txs = <<>> \/ LatestTx.type = "register" \/ LatestTx.owner # o

\* C13: illegal evidence that arrives as a special payload makes an Active
\* producer Illegal at once; the next block first undoes that, so after a
\* next block without the illegal-evidence transaction the producer is as it
\* was before the payload, and after a next block with it the producer is
\* Illegal.
ProvisionalEvidence ==
    /\ (last.op = "SpecialPayload" /\ regAt[Len(regAt)][last.accused].status = "Active")
          => a.producers[last.accused].status = "Illegal"
    /\ (last.op = "ProcessBlock" /\ last.accused # 0
            /\ Before[last.accused].status = "Active")
          => /\ Untouched(last.accused) => a.producers[last.accused] = Before[last.accused]
             /\ (~Untouched(last.accused) /\ LatestTx.type = "illegal")
                   => a.producers[last.accused].status = "Illegal"

\* an Active producer was accused by a special payload, made Illegal, and
\* the next block, an empty one, has made it Active again
ProvisionalEvidenceWitness ==
    /\ last.op = "ProcessBlock" /\ last.accused # 0
    /\ Before[last.accused].status = "Active"
    /\ chain[Len(chain)].txs = <<>>
    /\ a.producers[last.accused].status = "Active"
    /\ \A o \in Owners : a.producers[o].status # "Illegal"

\* producer o is an arbitrator the latest block counted
Counted(o) ==
    /\ last.op = "ProcessBlock"
    /\ chain[Len(chain)].confirm # NilConfirm
    /\ Before[o].status = "Active"
    /\ a.producers[o].node \in Range(a.currentArbitrators)
\* producer o took part in the confirm of the latest block
TookPart(o) ==
    a.producers[o].node \in chain[Len(chain)].confirm.votes
                                \cup {chain[Len(chain)].confirm.sponsor}
\* the latest block made producer o Inactive
BecameInactive(o) ==
    last.op = "ProcessBlock" /\ Before[o].status = "Active"
        /\ a.producers[o].status = "Inactive"

FurtherBlocks == last.height - last.requestAt

EvidenceHashes(txs) ==
    {PayloadHash(txs[i].payload) :
        i \in {j \in DOMAIN txs : txs[j].type \in {"illegal", "illegalProposal",
                                                   "inactiveArbitrators"}}}

\* C16: CheckDPOSIllegalTx returns an error exactly when some hash of the
\* pending illegal-evidence table is not the payload hash of an evidence
\* transaction of the block, so never with an empty table, and it leaves the
\* engine as it was whether it fails or not.
CheckLeavesEngineAndFailsOnMissingHash ==
    [][(last'.op = "CheckDPOSIllegalTx" /\ last'.err # "blocked")
          => /\ a' = a
             /\ (last'.err # "nil") <=>
                   (\E h \in a.illegalBlocksPayloadHashes : h \notin EvidenceHashes(last'.ret))
             /\ a.illegalBlocksPayloadHashes = {} => last'.err = "nil"]_vars

\* a block with one of two expected transactions has been turned down
CheckLeavesEngineAndFailsOnMissingHashWitness ==
    /\ last.op = "CheckDPOSIllegalTx"
    /\ last.err = "expect an illegal blocks transaction in this block"
    /\ EvidenceHashes(last.ret) \cap a.illegalBlocksPayloadHashes # {}
    /\ Cardinality(a.illegalBlocksPayloadHashes) = 2

\* C17: ProcessSpecialTxPayload accepts a payload of each of the three kinds
\* and records its hash as expected in the next block, so that
\* CheckDPOSIllegalTx turns down a next block without the matching
\* transaction.
SpecialPayloadRecordsExpectedHash ==
    (last.op = "ProcessSpecialTxPayload" /\ last.err # "blocked")
        => /\ last.err # "[ProcessSpecialTxPayload] invalid payload type"
           /\ last.arg \in a.illegalBlocksPayloadHashes
           /\ ~a.mtx => CheckDPOSIllegalTx(a, [height |-> a.history.height + 1,
                                               txs |-> <<>>]).err
                           = "expect an illegal blocks transaction in this block"

\* the member at the 0-based position i of the committee, counted cyclically
Cyclic(arbitrators, i) == arbitrators[(i % Len(arbitrators)) + 1]

\* C18: at heights >= CRCOnlyDPOSHeight GetNextOnDutyArbitrator(offset)
\* returns currentArbitrators[(dutyIndex + offset) mod |currentArbitrators|],
\* nil for an empty committee, and GetOnDutyArbitrator() is the case of
\* offset 0; a block of change type none puts the cyclic successor, in the
\* sorted committee, of the member on duty before it on duty.
DutyLookupFollowsDutyIndex ==
    [][/\ last'.op = "GetNextOnDutyArbitrator"
            => /\ last'.err = "nil"
               /\ last'.ret = IF a.currentArbitrators = <<>> THEN <<NilArbiter>>
                              ELSE <<Cyclic(a.currentArbitrators, a.dutyIndex + last'.arg)>>
               /\ last'.arg = 0 => last'.ret = <<GetOnDutyArbitrator(a, bestHeight).arbiter>>
       /\ (/\ last'.op = "ProcessBlock" /\ last'.changeType = none
           /\ bestHeight + 1 >= CRCOnlyDPOSHeight)
            => /\ a'.currentArbitrators = a.currentArbitrators
               /\ a.currentArbitrators = SortKeys(a.currentArbitrators)
               /\ \E i \in 0..(Len(a.currentArbitrators) - 1) :
                     /\ GetOnDutyArbitrator(a, bestHeight).arbiter
                           = Cyclic(a.currentArbitrators, i)
                     /\ GetOnDutyArbitrator(a', bestHeight').arbiter
                           = Cyclic(a.currentArbitrators, i + 1)]_vars

\* a lookup has gone round the end of a committee of three
DutyLookupFollowsDutyIndexWitness ==
    /\ last.op = "GetNextOnDutyArbitrator"
    /\ Len(a.currentArbitrators) = 3
    /\ a.dutyIndex >= 1 /\ last.arg >= 1
    /\ a.dutyIndex + last.arg >= Len(a.currentArbitrators)
    /\ last.ret = <<Cyclic(a.currentArbitrators, a.dutyIndex + last.arg)>>

\* C19: once the best height is at least CRCOnlyDPOSHeight - 1,
\* GetOnDutyCrossChainArbitrator returns the element at index
\* (h - CRCOnlyDPOSHeight + 1) mod |CRC| of the sorted CRC arbiters; under
\* every interleaving of concurrent cross-chain lookups no caller is handed
\* a partially sorted list, and the shared CRC list is written only by a
\* thread that holds the mutex.
CrossChainDutyRaceFree ==
    [][/\ (/\ last'.op = "GetOnDutyCrossChainArbitrator" /\ last' # last
           /\ last'.height >= CRCOnlyDPOSHeight - 1)
            => last'.ret = <<SortKeys(ThreeCRCArbiters)[
                               ondutyIndex(last'.height, ThreeCRCArbiters) + 1]>>
       /\ (/\ last'.op \in {"GetCRCArbiters", "GetCrossChainArbiters"} /\ last' # last
           /\ last'.op = "GetCrossChainArbiters" => last'.height >= CRCOnlyDPOSHeight - 1)
            => last'.ret \in {ThreeCRCArbiters, SortKeys(ThreeCRCArbiters)}
       /\ a'.crcArbiters # a.crcArbiters
            => \E t \in Callers : calls[t].locked /\ calls'[t] # calls[t]]_vars

\* C20: every read and write of the committee state is made with the
\* mutex held: no lookup reads while ProcessBlock or RollbackTo is between
\* two of its writes, and the currentArbitrators list and the dutyIndex a
\* lookup has read are those of one moment before or after these
\* operations.
CommitteeStateUnderMutex ==
    [][/\ calls'.query # calls.query => calls.change.pc = "idle"
       /\ (calls.query.pc = "list" /\ calls'.query.pc = "idle")
            => [arbitrators |-> calls.query.arbitrators, dutyIndex |-> last'.arg]
                  \in calls.moments \cup (IF calls.change.pc = "idle" THEN {}
                                           ELSE {calls.change.after})]_vars

\* C21: every ETDirectPeersChanged notification, from a block's updateNext or
\* normalChange as from ForceChange, is issued with the mutex released and
\* handed to events.Notify on a background task, never in the thread that
\* processes the block.
NotificationsOnBackgroundTask ==
    \A e \in calls : ~e.mtx /\ e.thread = "background"

\* the part of C21 that the code keeps: the mutex is released before the
\* peers are collected and the listeners run
NotificationsAfterUnlock == \A e \in calls : ~e.mtx
NotificationsAfterUnlockWitness ==
    \E e, f \in calls : e.by = "IncreaseChainHeight" /\ f.by = "ForceChange"

\* C22: IsTimeOut() is true exactly when the current height is above
\* PublicDPOSHeight and the view offset is at least the committee size times
\* the timeout factor, whatever the factor, the initial 0 included.
IsTimeOutForEveryFactor ==
    last.op = "IsTimeOut" =>
        (last.ret <=> (/\ last.height > PublicDPOSHeight
                       /\ last.arg >= GetArbitersCount(a) * calls.timeoutRefactor))

\* C22 as the code has it: with the factor at 0 the answer is no; otherwise
\* it is yes exactly when the current height is above PublicDPOSHeight and
\* the view offset is at least the committee size times the factor.
IsTimeOutUnlessFactorZero ==
    last.op = "IsTimeOut" =>
        (last.ret <=> (/\ calls.timeoutRefactor # 0
                       /\ last.height > PublicDPOSHeight
                       /\ last.arg >= GetArbitersCount(a) * calls.timeoutRefactor))
IsTimeOutUnlessFactorZeroWitness ==
    /\ last.op = "IsTimeOut" /\ last.ret = TRUE
    /\ calls.timeoutRefactor = firstTimeoutFactor + othersTimeoutFactor
    /\ GetArbitersCount(a) = 3

\* C23: the timeout factor is 0 at construction and after every Reset(), and
\* after the k-th SetEliminated() since then it is 1 + 240 * (k - 1); Reset()
\* clears the eliminated flag as well.
TimeoutFactorEscalates ==
    /\ calls.eliminations = 0 =>
          calls.timeoutRefactor = 0 /\ ~calls.inactiveArbitratorsEliminated
    /\ calls.eliminations > 0 =>
          /\ calls.timeoutRefactor = 1 + 240 * (calls.eliminations - 1)
          /\ calls.inactiveArbitratorsEliminated
TimeoutFactorEscalatesWitness ==
    /\ calls.eliminations = 3 /\ calls.timeoutRefactor = 481
    /\ last.op = "SetEliminated"

\* a block whose change has called updateNextArbitrators at a version height
\* of PublicDPOSHeight or above
NextUpdatedAboveH2 ==
    /\ last.op = "ProcessBlock"
    /\ last.changeType \in {updateNext, normalChange}
    /\ last.version >= PublicDPOSHeight

NormalChangeStep ==
    /\ last'.op = "ProcessBlock"
    /\ last'.changeType = normalChange
    /\ a'.halted = "no"

\* the owner hashes a settlement on the committee of x may credit
PayableHashes(x) ==
    {CRCAddress} \cup Range(x.currentOwnerProgramHashes)
                 \cup Range(x.candidateOwnerProgramHashes)

\* the election in x is one the registry p allows: the CRC arbiters, then
\* voted producers of p, none of them outvoted by a voted producer left out
ElectedFrom(x, p) ==
    LET voted == GetVotedProducers(p)
        elected == Range(x.nextArbitrators) \ Range(CRCArbiters)
    IN /\ Range(CRCArbiters) \subseteq Range(x.nextArbitrators)
       /\ \A pk \in elected \cup Range(x.nextCandidates) :
             \E o \in voted : p[o].node = pk
       /\ \A pk \in elected, o \in voted :
             \/ p[o].node \in elected
             \/ \A w \in voted : p[w].node = pk => p[o].votes <= p[w].votes

\* the promotion of a normalChange step: the lists, their order, dutyIndex
\* and the election that follows
Promoted ==
    /\ Range(a'.currentArbitrators) = Range(a.nextArbitrators)
    /\ Len(a'.currentArbitrators) = Len(a.nextArbitrators)
    /\ Range(a'.currentCandidates) = Range(a.nextCandidates)
    /\ \A i, j \in DOMAIN a'.currentArbitrators :
          i < j => a'.currentArbitrators[i] < a'.currentArbitrators[j]
    /\ a'.dutyIndex = 0
    /\ ElectedFrom(a', a'.producers)

\* C25: in a block that triggers normalChange the pending reward is settled
\* first, on the outgoing committee; afterwards currentArbitrators and
\* currentCandidates are, as sets, the nextArbitrators and nextCandidates
\* of before the block, currentArbitrators is in ascending order, dutyIndex
\* is 0, and nextArbitrators and nextCandidates are elected from the
\* registry as it is after the block.  (The reward ledger begins above
\* PublicDPOSHeight; the changes at the two version heights have nothing to
\* settle.)
NormalChangeSettlesThenPromotes ==
    [][NormalChangeStep =>
        /\ last'.height + 1 > PublicDPOSHeight => last'.settled
        /\ last'.settled => DOMAIN a'.arbitersRoundReward \subseteq PayableHashes(a)
        /\ Promoted]_vars

\* what holds of every normalChange step: a block whose height is not
\* clearingHeight is settled on the outgoing committee, and every block
\* promotes the next committee
NormalChangePromotesNext ==
    [][NormalChangeStep =>
        /\ last'.height + 1 > PublicDPOSHeight /\ last'.height # a.clearingHeight
               => last'.settled
        /\ last'.settled => DOMAIN a'.arbitersRoundReward \subseteq PayableHashes(a)
        /\ Promoted]_vars

\* the owner hashes of the committee in office that are no CRC arbiter's
CurrentNonCRCHashes ==
    (Range(a.currentOwnerProgramHashes) \cup Range(a.candidateOwnerProgramHashes))
        \ crcArbitratorsProgramHashes

\* C26: after every normalChange ownerVotesInRound holds the votes of exactly
\* the non-CRC owners of the new currentArbitrators and currentCandidates,
\* and totalVotesInRound is their sum.
SnapshotBelongsToCurrentRound ==
    (last.op = "ProcessBlock" /\ last.changeType = normalChange /\ a.halted = "no") =>
        /\ DOMAIN a.ownerVotesInRound = CurrentNonCRCHashes
        /\ \A o \in Owners :
              PublicKeyToStandardProgramHash(o) \in CurrentNonCRCHashes =>
                  a.ownerVotesInRound[PublicKeyToStandardProgramHash(o)] =
                      a.producers[o].votes
        /\ a.totalVotesInRound = MapSum(a.ownerVotesInRound)

\* the latest call has distributed the pending reward and returned
Settled == last.settled /\ last.err = "nil" /\ a.halted = "no"

\* after a smooth settlement the pending reward is the share of the block
\* that was processed
SmoothSettlementLeavesBlockShare ==
    (Settled /\ last.op = "ProcessBlock") =>
        a.accumulativeReward = getBlockDPOSReward(chain[Len(chain)])
\* after a forced settlement the pending reward is 0
ForcedSettlementLeavesNothing ==
    (Settled /\ last.op = "RollbackTo" /\ last.forced) => a.accumulativeReward = 0

SettlementStep == last'.settled /\ last'.err = "nil" /\ a'.halted = "no"

\* C28: a settlement that finds totalVotesInRound at 0 gives the whole reward
\* to the CRC address: arbitersRoundReward maps CRCAddress to the full
\* reward and has no other entry.
NoVotesAllToCRCAddress ==
    [][(SettlementStep /\ a.totalVotesInRound = 0) =>
           /\ DOMAIN a'.arbitersRoundReward = {CRCAddress}
           /\ a'.arbitersRoundReward[CRCAddress] = last'.reward]_vars
NoVotesAllToCRCAddressWitness ==
    /\ Settled /\ last.reward > 0
    /\ DOMAIN a.arbitersRoundReward = {CRCAddress}
    /\ a.arbitersRoundReward[CRCAddress] = last.reward
    /\ a.finalRoundChange = last.reward

\* the hashes of the arbitrators in office that are no CRC arbiter's
PaidArbitrators == Range(a.currentOwnerProgramHashes) \ crcArbitratorsProgramHashes
\* the number of CRC arbiters in office
CRCInOffice ==
    Cardinality({i \in DOMAIN a.currentOwnerProgramHashes :
                    a.currentOwnerProgramHashes[i] \in crcArbitratorsProgramHashes})

\* C29: at a settlement with totalVotesInRound > 0 every arbitrator in
\* office earns floor(reward * 0.25 / number of current owner hashes); every
\* non-CRC arbitrator and every candidate earns floor(votes * reward * 0.75 /
\* totalVotesInRound) on top, candidates nothing else; the shares of the CRC
\* arbiters go to the CRC address and never to their own hashes; what is
\* credited is what is counted as paid.
PayoutSharesAreFloors ==
    (last.op = "distributeDPOSReward" /\ last.err = "nil" /\ a.totalVotesInRound > 0) =>
        LET paid == a.arbitersRoundReward
            confirm == last.reward \div (4 * Len(a.currentOwnerProgramHashes))
            producer(h) == (3 * MapGet(a.ownerVotesInRound, h) * last.reward)
                               \div (4 * a.totalVotesInRound)
        IN /\ \A h \in PaidArbitrators : MapGet(paid, h) = confirm + producer(h)
           /\ \A h \in Range(a.candidateOwnerProgramHashes) \ PaidArbitrators :
                 MapGet(paid, h) = producer(h)
           /\ MapGet(paid, CRCAddress) = CRCInOffice * confirm
           /\ DOMAIN paid \cap crcArbitratorsProgramHashes = {}
           /\ MapSum(paid) = last.reward - a.finalRoundChange

\* a block above PublicDPOSHeight has been processed
PaidBlockStep ==
    /\ last'.op = "ProcessBlock"
    /\ last'.height > PublicDPOSHeight
    /\ a'.halted = "no"

\* ceil((fees + RewardPerBlock) * 0.35) of the block just processed
ShareOfBlock ==
    ((TotalFee(chain'[Len(chain')].txs) + RewardPerBlock) * 35 + 99) \div 100

\* C30: every processed block above PublicDPOSHeight adds its DPoS share,
\* ceil((fees + RewardPerBlock) * 0.35), to the pending reward exactly once:
\* to accumulativeReward when its change type is none, to the amount that is
\* settled when it triggers a normalChange.
EveryBlockShareAddedOnce ==
    [][PaidBlockStep =>
          /\ last'.changeType \in {none, normalChange}
          /\ last'.changeType = none =>
                a'.accumulativeReward = a.accumulativeReward + ShareOfBlock
          /\ last'.changeType = normalChange =>
                /\ last'.settled
                /\ last'.reward = a.accumulativeReward + ShareOfBlock]_vars

\* the node keys of the voted producers of p, ranked by votes descending,
\* equal votes by node public key ascending
Ranking(p) == NodeKeys(p, SortVoted(p, GetVotedProducers(p)))

\* the entries of the list q from position i to position j, as far as it goes
Slice(q, i, j) == SubSeq(q, i, IF j < Len(q) THEN j ELSE Len(q))

\* no key is listed twice in q
NoDuplicates(q) == \A i, j \in DOMAIN q : q[i] = q[j] => i = j

\* C31: an updateNext at a version of PublicDPOSHeight or above that ends in
\* Normal mode leaves nextArbitrators as the CRC arbiters followed by the
\* first GeneralArbiters voted producers of the ranking (votes descending,
\* equal votes by node public key ascending) and nextCandidates as the
\* following CandidateArbiters producers of the same ranking; no node key is
\* in both lists and none is listed twice.
CommitteeSelectedByRanking ==
    (NextUpdatedAboveH2 /\ a.halted = "no" /\ a.degState = "Normal") =>
        /\ Range(SubSeq(a.nextArbitrators, 1, Len(CRCArbiters))) = Range(CRCArbiters)
        /\ SubSeq(a.nextArbitrators, Len(CRCArbiters) + 1, Len(a.nextArbitrators))
              = Slice(Ranking(a.producers), 1, GeneralArbiters)
        /\ a.nextCandidates
              = Slice(Ranking(a.producers), GeneralArbiters + 1,
                      GeneralArbiters + CandidateArbiters)
        /\ NoDuplicates(a.nextArbitrators \o a.nextCandidates)

\* CheckDPOSIllegalTx has been called and has returned
CheckedStep ==
    /\ last'.op = "CheckDPOSIllegalTx" /\ last.op # "CheckDPOSIllegalTx"
    /\ last'.err # "blocked"
\* it has returned nil with hashes pending in the table
CheckPassedStep ==
    /\ CheckedStep
    /\ last'.err = "nil"
    /\ a.illegalBlocksPayloadHashes # {}

\* ProcessSpecialTxPayload has called ForceChange and returned nil
PayloadForcedStep ==
    /\ last'.op = "ProcessSpecialTxPayload"
    /\ host' = host + 1
    /\ last'.err = "nil"
    /\ last'.forced

\* the step has forced a committee change at the height the engine is at:
\* the reward is settled in force mode unless the best block's height is
\* clearingHeight already, the next committee is elected from the registry
\* and promoted, dutyIndex is 0 and the peers are notified once started
ForcedChangeStep ==
    /\ ~a'.mtx
    /\ a'.dutyIndex = 0
    /\ a'.currentArbitrators = SortKeys(a'.nextArbitrators)
    /\ a'.currentCandidates = a'.nextCandidates
    /\ ElectedFrom(a', a'.producers)
    /\ a.history.height + 1 > PublicDPOSHeight =>
          /\ a'.clearingHeight = a.history.height
          /\ a.clearingHeight # a.history.height =>
                /\ last'.settled /\ last'.reward = a.accumulativeReward
                /\ a'.accumulativeReward = getBlockDPOSReward(chain[Len(chain)])
    /\ a'.started =>
          \E e \in calls' : /\ e.by = "ForceChange"
                            /\ e.height = a.history.height
                            /\ e.peers = GetNeedConnectArbiters(a')

BlockStep ==
    /\ last'.op = "ProcessBlock"
    /\ a'.history.height = a.history.height + 1
    /\ a'.halted = "no"

\* what GetArbitersRoundReward and GetFinalRoundChange return
Ledger(x) == <<GetArbitersRoundReward(x), GetFinalRoundChange(x)>>
NoLedger == <<NilMap, 0>>

\* C33: arbitersRoundReward is the last settled payout ledger: once a
\* settlement has happened, GetArbitersRoundReward() and
\* GetFinalRoundChange() return that settlement's values through every
\* following block until the next settlement replaces them, and a new
\* settlement carries over no entry of the previous one.
LedgerKeptUntilNextSettlement ==
    [][/\ (BlockStep /\ ~last'.settled) => Ledger(a') = Ledger(a)
       /\ (BlockStep /\ last'.settled) =>
             GetArbitersRoundReward(a') =
                 distributeDPOSReward([a EXCEPT !.arbitersRoundReward = NilMap],
                                      last'.reward).a.arbitersRoundReward]_vars

\* C33 as the code has it: the ledger of a settlement is returned until the
\* next block of change type none above PublicDPOSHeight, which sets
\* arbitersRoundReward to nil and finalRoundChange to 0; blocks up to
\* PublicDPOSHeight and blocks of change type updateNext leave it as it is;
\* a settlement replaces the map and carries over no entry.
LedgerKeptUntilNextAccumulation ==
    [][/\ (BlockStep /\ last'.changeType = none /\ last'.height > PublicDPOSHeight)
             => Ledger(a') = NoLedger
       /\ (BlockStep /\ ~last'.settled
             /\ ~(last'.changeType = none /\ last'.height > PublicDPOSHeight))
             => Ledger(a') = Ledger(a)
       /\ (BlockStep /\ last'.settled) =>
             GetArbitersRoundReward(a') =
                 distributeDPOSReward([a EXCEPT !.arbitersRoundReward = NilMap],
                                      last'.reward).a.arbitersRoundReward]_vars
\* a block of change type none has followed a settlement
LedgerKeptUntilNextAccumulationWitness ==
    /\ last.op = "ProcessBlock" /\ last.changeType = none
    /\ last.height = a.clearingHeight + 1
    /\ last.height > PublicDPOSHeight
    /\ Ledger(a) = NoLedger
    /\ a.accumulativeReward > 0

\* C34: dutyIndex stays in range across rollbacks: after any successful
\* RollbackTo(height) dutyIndex is not negative, and at heights above
\* PublicDPOSHeight it is below the size of currentArbitrators.
DutyIndexInRangeAfterRollback ==
    (last.op = "RollbackTo" /\ last.err = "nil") =>
        /\ a.dutyIndex >= 0
        /\ a.history.height > PublicDPOSHeight =>
              a.dutyIndex < Len(a.currentArbitrators)

\* C35: a pending expected-evidence hash constrains the very next block
\* only: every processed block, whatever its change type, leaves the
\* illegal-evidence table empty; an empty table gets an entry only by a
\* special payload; and CheckDPOSIllegalTx succeeds on every block while the
\* table is empty.
EvidenceConstrainsNextBlockOnly ==
    [][/\ BlockStep => a'.illegalBlocksPayloadHashes = {}
       /\ (a.illegalBlocksPayloadHashes = {} /\ a'.illegalBlocksPayloadHashes # {})
             => last'.op = "ProcessSpecialTxPayload" /\ host' = host + 1
       /\ (CheckedStep /\ a.illegalBlocksPayloadHashes = {}) => last'.err = "nil"]_vars
\* the first block after a DPOSIllegalBlocks payload has been processed: it
\* carries the evidence transaction and the table is empty again
EvidenceConstrainsNextBlockOnlyWitness ==
    /\ last.op = "ProcessBlock"
    /\ served = [blocks |-> 1, by |-> "ForceChange"]
    /\ a.inactiveTxs = {}
    /\ \E i \in DOMAIN chain[Len(chain)].txs : IsIllegalBlockTx(chain[Len(chain)].txs[i])
    /\ a.illegalBlocksPayloadHashes = {}

\* C36: ForceChange releases the engine mutex on every return path: when a
\* special payload's ForceChange has returned, with or without an error,
\* the mutex is free.
ForceChangeReleasesMutex ==
    (last.op = "ProcessSpecialTxPayload" /\ last.forced /\ last.err # "blocked")
        => ~a.mtx

\* C37: HasArbitersMinorityCount(k) answers for one committee snapshot:
\* its result is k >= n - floor(2n/3) for one committee size n the engine
\* has had while the query ran, under every interleaving with ProcessBlock
\* and RollbackTo.
MinorityCountFromOneSnapshot ==
    (last.op = "HasArbitersMinorityCount" /\ calls.pc = "idle") =>
        \E n \in calls.sizes :
            last.ret[1] = (last.arg >= n - ((n * MajoritySignRatioNumerator)
                                              \div MajoritySignRatioDenominator))

\* a normalChange block asks for the settlement of its own height
NormalChangeRequestStep ==
    /\ last'.op = "ProcessBlock"
    /\ last'.changeType = normalChange
    /\ a'.history.height = a.history.height + 1
    /\ a'.halted = "no"
\* a rollback's ForceChange asks for the settlement of the height rolled
\* back to
ForcedRequestStep ==
    /\ last'.op = "RollbackTo"
    /\ host' = host + 1
    /\ last'.forced /\ last'.err = "nil"

\* C38: at most one settlement per block height: a settlement request for a
\* block of height clearingHeight, from a normalChange or from ForceChange,
\* distributes nothing and leaves arbitersRoundReward, finalRoundChange and
\* accumulativeReward unchanged.
OneSettlementPerHeight ==
    [][/\ (NormalChangeRequestStep /\ a.clearingHeight = a.history.height + 1) =>
             /\ ~last'.settled
             /\ Ledger(a') = Ledger(a)
             /\ a'.accumulativeReward = a.accumulativeReward
       /\ (ForcedRequestStep /\ a.clearingHeight = last'.height) =>
             /\ ~last'.settled
             /\ Ledger(a') = Ledger(a)
             /\ a'.accumulativeReward = a.accumulativeReward]_vars
\* block clearingHeight, a normalChange above PublicDPOSHeight, has been
\* processed a second time and nothing was distributed
OneSettlementPerHeightWitness ==
    /\ last.op = "ProcessBlock" /\ last.changeType = normalChange
    /\ a.halted = "no"
    /\ a.history.height > PublicDPOSHeight
    /\ a.clearingHeight = a.history.height
    /\ ~last.settled

\* the DPoS shares of the blocks of q above height c that are above
\* PublicDPOSHeight
RECURSIVE SharesSince(_, _)
SharesSince(q, c) ==
    IF q = <<>> THEN 0
    ELSE (IF Head(q).height > c /\ Head(q).height > PublicDPOSHeight
          THEN getBlockDPOSReward(Head(q)) ELSE 0) + SharesSince(Tail(q), c)

\* C39: only blocks above PublicDPOSHeight are paid out: the reward a
\* settlement distributes is the sum of the DPoS shares of the blocks above
\* PublicDPOSHeight that the chain has gained since the previous settlement
\* (the blocks above clearingHeight), no more and no less.
OnlyBlocksAbovePublicDPOSHeightPaid ==
    [][SettlementStep => last'.reward = SharesSince(chain', a.clearingHeight)]_vars

\* the AddValue calls of q after its last Reset
RECURSIVE SinceReset(_)
SinceReset(q) ==
    IF q = <<>> \/ q[Len(q)].op = "Reset" THEN <<>>
    ELSE Append(SinceReset(SubSeq(q, 1, Len(q) - 1)), q[Len(q)])
\* the AddValue calls of q
AddValueCalls(q) == SelectSeq(q, LAMBDA e : e.op = "AddValue")
\* the block the latest AddValue of key in q came with
LatestValue(q, key) ==
    LET at == {i \in DOMAIN q : q[i].key = key}
    IN q[CHOOSE i \in at : \A j \in at : j <= i].value

====
